---- MODULE Spec2Model ----
(***************************************************************************)
(* Transcript-to-analytics pipeline of the Gong transcript function:       *)
(* getSpeakerName, formatTimestamp, analyzeSentence,                       *)
(* processTranscriptEntries, analyzeTranscriptContent and                  *)
(* extractConversationText, as called by transcriptHandler for one         *)
(* transcript; and, of the surrounding functions, extractConversationText  *)
(* and batchAnalysis of the ai-analysis function and getSecrets with its   *)
(* module-level cache.                                                     *)
(*                                                                         *)
(* JavaScript values are records [type, str, num]; a string is the         *)
(* sequence of its characters, so that split, trim, includes, toLowerCase  *)
(* and the template literals are computed character by character.  Times   *)
(* are whole seconds given in milliseconds (multiples of 1000), so the     *)
(* division by 1000 is exact; floating-point rounding is not modelled.     *)
(***************************************************************************)
EXTENDS Integers, Sequences, FiniteSets, TLC

VARIABLES
    transcript,        \* the argument transcript.transcript of the three functions
    pc,                \* position of the handler's map callback
    i,                 \* index of the last entry taken by the running for..of loop
    j,                 \* index of the last sentence taken by the inner loop of analyzeTranscriptContent
    processedEntries,  \* processTranscriptEntries: const processedEntries = []
    speakerMap,        \* processTranscriptEntries: const speakerMap = new Map()
    analysis,          \* analyzeTranscriptContent: const analysis = {...} (and its return value)
    lastSpeaker,       \* analyzeTranscriptContent: let lastSpeaker = null
    conversation,      \* extractConversationText: const conversation = []
    extractMap,        \* extractConversationText: const speakerMap = new Map()
    conversationText,  \* extractConversationText: the returned string
    protoWrites,       \* members of Object.prototype that received stat properties
    lookups,           \* resolver runs: the speakerIds looked up so far
    labels,            \* resolver run 1: the labels returned, on speakerMap
    replayMap,         \* resolver run 2: its own fresh Map
    replayLabels,      \* resolver run 2: the labels returned
    other,             \* the callback of another transcript: its last calls and their results
    seconds,           \* formatTimestamp: its argument
    timestamp,         \* formatTimestamp: the returned string
    aiConversationText, \* extractConversationText of the ai-analysis function: the returned string
    request,           \* batchAnalysis: req.body, {callIds, batchSize}
    handlerPc,         \* batchAnalysis: position of the handler
    loopIndex,         \* batchAnalysis: let i of the running for loop
    batches,           \* batchAnalysis: const batches = []
    allResults,        \* batchAnalysis: const allResults = []
    responses,         \* batchAnalysis: the responses sent with res.status(...).json(...)
    secretsCache,      \* let secretsCache = {}: the names of the secrets it holds
    lastSecretRefresh, \* let lastSecretRefresh = 0
    clock,             \* Date.now()
    calls              \* the calls of getSecrets: position, const now, responses received

\* batchAnalysis of the ai-analysis function
batchVars == <<request, handlerPc, loopIndex, batches, allResults, responses>>

\* getSecrets and the module state it caches the secrets in
secretVars == <<secretsCache, lastSecretRefresh, clock, calls>>

\* The state outside the callback of transcriptHandler
serviceVars == <<seconds, timestamp, aiConversationText, batchVars, secretVars>>

vars == <<transcript, pc, i, j, processedEntries, speakerMap, analysis, lastSpeaker,
          conversation, extractMap, conversationText, protoWrites,
          lookups, labels, replayMap, replayLabels, other, serviceVars>>

\* const CACHE_DURATION = 60 * 60 * 1000, in milliseconds
CACHE_DURATION == 3600000

---------------------------------------------------------------------------
(* JavaScript values *)

Undefined == [type |-> "undefined", str |-> <<>>, num |-> 0]
Null == [type |-> "null", str |-> <<>>, num |-> 0]
Str(s) == [type |-> "string", str |-> s, num |-> 0]
Num(n) == [type |-> "number", str |-> <<>>, num |-> n]

\* ToBoolean: undefined, null, "" and 0 are falsy
Truthy(v) ==
    \/ v.type = "string" /\ v.str # <<>>
    \/ v.type = "number" /\ v.num # 0

\* a || b
Or(a, b) == IF Truthy(a) THEN a ELSE b

\* An array value, or undefined where the field is absent
Array(items) == [isArray |-> TRUE, items |-> items]
NoArray == [isArray |-> FALSE, items |-> <<>>]

---------------------------------------------------------------------------
(* Strings as sequences of characters *)

UpperCase == <<"A","B","C","D","E","F","G","H","I","J","K","L","M",
               "N","O","P","Q","R","S","T","U","V","W","X","Y","Z">>
LowerCase == <<"a","b","c","d","e","f","g","h","i","j","k","l","m",
               "n","o","p","q","r","s","t","u","v","w","x","y","z">>

\* String.prototype.toLowerCase
LowerChar(c) ==
    IF \E k \in 1..Len(UpperCase) : UpperCase[k] = c
    THEN LowerCase[CHOOSE k \in 1..Len(UpperCase) : UpperCase[k] = c]
    ELSE c
toLowerCase(s) == [k \in 1..Len(s) |-> LowerChar(s[k])]

\* String.prototype.includes
includes(s, w) ==
    \E k \in 0..(Len(s) - Len(w)) : SubSeq(s, k + 1, k + Len(w)) = w

\* String.prototype.split(' '): the pieces between single space characters
RECURSIVE split(_)
split(s) ==
    IF \A k \in 1..Len(s) : s[k] # " "
    THEN <<s>>
    ELSE LET k == CHOOSE n \in 1..Len(s) :
                      s[n] = " " /\ \A m \in 1..(n - 1) : s[m] # " "
         IN <<SubSeq(s, 1, k - 1)>> \o split(SubSeq(s, k + 1, Len(s)))

\* String.prototype.trim
WhiteSpace == {" ", "\t", "\n"}
RECURSIVE trimStart(_)
trimStart(s) ==
    IF s # <<>> /\ Head(s) \in WhiteSpace THEN trimStart(Tail(s)) ELSE s
RECURSIVE trimEnd(_)
trimEnd(s) ==
    IF s # <<>> /\ s[Len(s)] \in WhiteSpace
    THEN trimEnd(SubSeq(s, 1, Len(s) - 1)) ELSE s
trim(s) == trimEnd(trimStart(s))

\* Number.prototype.toString of a non-negative integer
Digits == <<"0","1","2","3","4","5","6","7","8","9">>
RECURSIVE toString(_)
toString(n) ==
    IF n < 10 THEN <<Digits[n + 1]>>
    ELSE toString(n \div 10) \o <<Digits[(n % 10) + 1]>>

\* String.prototype.padStart(2, '0')
padStart(s) == IF Len(s) < 2 THEN [k \in 1..(2 - Len(s)) |-> "0"] \o s ELSE s

\* Array.prototype.join('\n')
RECURSIVE join(_)
join(lines) ==
    IF lines = <<>> THEN <<>>
    ELSE IF Len(lines) = 1 THEN lines[1]
    ELSE lines[1] \o <<"\n">> \o join(Tail(lines))

---------------------------------------------------------------------------
(* Helper functions of the transcript function *)

\* A Map is a function from its keys to their values; size is the number of keys
EmptyMap == [k \in {} |-> <<>>]
MapSet(m, key, value) ==
    [k \in (DOMAIN m) \cup {key} |-> IF k = key THEN value ELSE m[k]]
MapSize(m) == Cardinality(DOMAIN m)

\* `Speaker ${speakerNumber}`
SpeakerLabel(speakerNumber) ==
    <<"S","p","e","a","k","e","r"," ">> \o toString(speakerNumber)

\* A resolver that numbers the speakers from 0
getSpeakerNameMap_ZeroBased(speakerId, map) ==
    IF speakerId \notin DOMAIN map
    THEN MapSet(map, speakerId, SpeakerLabel(MapSize(map)))
    ELSE map

\* A resolver whose numbers come from one counter shared by all the maps
getSpeakerNameMap_SharedCounter(speakerId, map) ==
    IF speakerId \notin DOMAIN map
    THEN MapSet(map, speakerId,
                SpeakerLabel(MapSize(speakerMap) + MapSize(replayMap) + 1))
    ELSE map

\* getSpeakerName: the map after the call
getSpeakerNameMap(speakerId, map) ==
    IF speakerId \notin DOMAIN map
    THEN MapSet(map, speakerId, SpeakerLabel(MapSize(map) + 1))
    ELSE map

\* getSpeakerName: the returned label
getSpeakerName(speakerId, map) == getSpeakerNameMap(speakerId, map)[speakerId]

\* Number.prototype.toString of an integer
numberToString(n) == IF n < 0 THEN <<"-">> \o toString(0 - n) ELSE toString(n)

\* seconds % 60 of JavaScript: the sign of the dividend
Remainder(n, d) == IF n < 0 THEN 0 - ((0 - n) % d) ELSE n % d

\* A formatter that does not pad the minutes and the seconds
formatTimestamp_Unpadded(s) ==
    IF ~Truthy(s) /\ ~(s.type = "number" /\ s.num = 0)
    THEN <<"0","0",":","0","0">>
    ELSE LET mins == s.num \div 60
             secs == Remainder(s.num, 60)
         IN numberToString(mins) \o <<":">> \o numberToString(secs)

\* formatTimestamp(seconds), seconds a JavaScript value
formatTimestamp(s) ==
    IF ~Truthy(s) /\ ~(s.type = "number" /\ s.num = 0)
    THEN <<"0","0",":","0","0">>
    ELSE LET mins == s.num \div 60
             secs == Remainder(s.num, 60)
         IN padStart(numberToString(mins)) \o <<":">> \o padStart(numberToString(secs))

positiveWords == <<<<"g","r","e","a","t">>,
                   <<"e","x","c","e","l","l","e","n","t">>,
                   <<"g","o","o","d">>,
                   <<"l","o","v","e">>,
                   <<"p","e","r","f","e","c","t">>,
                   <<"a","m","a","z","i","n","g">>,
                   <<"f","a","n","t","a","s","t","i","c">>,
                   <<"w","o","n","d","e","r","f","u","l">>>>
negativeWords == <<<<"b","a","d">>,
                   <<"t","e","r","r","i","b","l","e">>,
                   <<"a","w","f","u","l">>,
                   <<"h","a","t","e">>,
                   <<"w","o","r","s","t">>,
                   <<"h","o","r","r","i","b","l","e">>,
                   <<"c","o","n","c","e","r","n">>,
                   <<"p","r","o","b","l","e","m">>,
                   <<"i","s","s","u","e">>>>

\* words.filter(word => lowerText.includes(word)).length
CountWords(words, lowerText) ==
    Cardinality({k \in 1..Len(words) : includes(lowerText, words[k])})

\* A classifier that compares the text as it is written
analyzeSentence_CaseSensitive(text) ==
    IF ~Truthy(text) THEN "neutral"
    ELSE IF text.type # "string" THEN "TypeError"
    ELSE LET positiveCount == CountWords(positiveWords, text.str)
             negativeCount == CountWords(negativeWords, text.str)
         IN IF positiveCount > negativeCount THEN "positive"
            ELSE IF negativeCount > positiveCount THEN "negative"
            ELSE "neutral"

\* analyzeSentence(text), text a JavaScript value; a truthy non-string has no
\* toLowerCase method
analyzeSentence(text) ==
    IF ~Truthy(text) THEN "neutral"
    ELSE IF text.type # "string" THEN "TypeError"
    ELSE LET lowerText == toLowerCase(text.str)
             positiveCount == CountWords(positiveWords, lowerText)
             negativeCount == CountWords(negativeWords, lowerText)
         IN IF positiveCount > negativeCount THEN "positive"
            ELSE IF negativeCount > positiveCount THEN "negative"
            ELSE "neutral"

NoTextAvailable == <<"N","o"," ","t","e","x","t"," ","a","v","a","i","l","a","b","l","e">>
NoContentAvailable == <<"N","o"," ","c","o","n","t","e","n","t"," ","a","v","a","i","l","a","b","l","e">>

\* sentence.start ? sentence.start / 1000 : 0
MsToSeconds(ms) == IF Truthy(ms) THEN ms.num \div 1000 ELSE 0

\* A duration that is never negative
SentenceDuration_Clamped(sentence) ==
    IF Truthy(sentence.end) /\ Truthy(sentence.start)
          /\ sentence.end.num > sentence.start.num
    THEN (sentence.end.num - sentence.start.num) \div 1000
    ELSE 0

\* sentence.end && sentence.start ? (sentence.end - sentence.start) / 1000 : 0
SentenceDuration(sentence) ==
    IF Truthy(sentence.end) /\ Truthy(sentence.start)
    THEN (sentence.end.num - sentence.start.num) \div 1000
    ELSE 0

---------------------------------------------------------------------------
(* processTranscriptEntries *)

\* A word count that leaves out the empty pieces
SentenceWordCount_NonEmptyPieces(sentence) ==
    IF Truthy(sentence.text)
    THEN Len(SelectSeq(split(sentence.text.str), LAMBDA piece : piece # <<>>))
    ELSE 0

\* sentence.text ? sentence.text.split(' ').length : 0
SentenceWordCount(sentence) ==
    IF Truthy(sentence.text) THEN Len(split(sentence.text.str)) ELSE 0

\* sentence.text.split of a truthy text that is not a string is a TypeError
SentenceThrows(sentence) ==
    Truthy(sentence.text) /\ sentence.text.type # "string"

\* A sentence object whose times are left in milliseconds
SentenceUtterance_Milliseconds(entry, sentence, speakerName) ==
    [speakerId   |-> entry.speakerId,
     speakerName |-> speakerName,
     sentence    |-> Or(sentence.text, Str(NoTextAvailable)),
     startTime   |-> Or(sentence.start, Num(0)),
     endTime     |-> Or(sentence.end, Num(0)),
     timestamp   |-> formatTimestamp(Num(MsToSeconds(sentence.start))),
     topic       |-> Or(entry.topic, Null),
     duration    |-> SentenceDuration(sentence),
     wordCount   |-> SentenceWordCount(sentence),
     sentiment   |-> analyzeSentence(sentence.text)]

\* The object pushed for one sentence of an entry
SentenceUtterance(entry, sentence, speakerName) ==
    [speakerId   |-> entry.speakerId,
     speakerName |-> speakerName,
     sentence    |-> Or(sentence.text, Str(NoTextAvailable)),
     startTime   |-> Num(MsToSeconds(sentence.start)),
     endTime     |-> Num(MsToSeconds(sentence.end)),
     timestamp   |-> formatTimestamp(Num(MsToSeconds(sentence.start))),
     topic       |-> Or(entry.topic, Null),
     duration    |-> SentenceDuration(sentence),
     wordCount   |-> SentenceWordCount(sentence),
     sentiment   |-> analyzeSentence(sentence.text)]

\* A fallback object that prefers entry.text to entry.sentence
FallbackUtterance_TextFirst(entry, speakerName) ==
    [speakerId   |-> entry.speakerId,
     speakerName |-> speakerName,
     sentence    |-> Or(Or(entry.text, entry.sentence), Str(NoContentAvailable)),
     startTime   |-> Or(entry.startTime, Num(0)),
     endTime     |-> Or(entry.endTime, Num(0)),
     timestamp   |-> formatTimestamp(Or(entry.startTime, Num(0))),
     topic       |-> Or(entry.topic, Null),
     duration    |-> 0,
     wordCount   |-> 0,
     sentiment   |-> "neutral"]

\* The object pushed for an entry without a sentences array
FallbackUtterance(entry, speakerName) ==
    [speakerId   |-> entry.speakerId,
     speakerName |-> speakerName,
     sentence    |-> Or(Or(entry.sentence, entry.text), Str(NoContentAvailable)),
     startTime   |-> Or(entry.startTime, Num(0)),
     endTime     |-> Or(entry.endTime, Num(0)),
     timestamp   |-> formatTimestamp(Or(entry.startTime, Num(0))),
     topic       |-> Or(entry.topic, Null),
     duration    |-> 0,
     wordCount   |-> 0,
     sentiment   |-> "neutral"]

\* A test that lets every entry into the loop over its sentences
HasSentences_Always(entry) == TRUE

\* entry.sentences && Array.isArray(entry.sentences)
HasSentences(entry) == entry.sentences.isArray

\* The inner loop, for (const sentence of entry.sentences), from state
\* st = [out, map, thrown]
RECURSIVE ProcessSentences(_, _, _)
ProcessSentences(entry, sentences, st) ==
    IF sentences = <<>> \/ st.thrown THEN st
    ELSE LET sentence == Head(sentences)
             map == getSpeakerNameMap(entry.speakerId, st.map)
             name == getSpeakerName(entry.speakerId, st.map)
         IN IF SentenceThrows(sentence)
            THEN [out |-> st.out, map |-> map, thrown |-> TRUE]
            ELSE ProcessSentences(entry, Tail(sentences),
                     [out |-> Append(st.out, SentenceUtterance(entry, sentence, name)),
                      map |-> map, thrown |-> FALSE])

\* An iteration that also takes the fallback branch for an empty sentences array
ProcessEntry_FallbackOnEmpty(entry, st) ==
    IF HasSentences(entry) /\ entry.sentences.items # <<>>
    THEN ProcessSentences(entry, entry.sentences.items, st)
    ELSE [out |-> Append(st.out,
                     FallbackUtterance(entry, getSpeakerName(entry.speakerId, st.map))),
          map |-> getSpeakerNameMap(entry.speakerId, st.map),
          thrown |-> FALSE]

\* One iteration of for (const entry of transcriptArray)
ProcessEntry(entry, st) ==
    IF HasSentences(entry)
    THEN ProcessSentences(entry, entry.sentences.items, st)
    ELSE [out |-> Append(st.out,
                     FallbackUtterance(entry, getSpeakerName(entry.speakerId, st.map))),
          map |-> getSpeakerNameMap(entry.speakerId, st.map),
          thrown |-> FALSE]

---------------------------------------------------------------------------
(* analyzeTranscriptContent *)

\* return {}
EmptyObject == [k \in {} |-> 0]

\* A quotient n / d of two integers, kept exact
Ratio(n, d) == [n |-> n, d |-> d]

\* const analysis = {...}
InitialAnalysis ==
    [speakerStats |-> [k \in {} |-> 0],
     totalDuration |-> 0,
     totalWords |-> 0,
     sentimentDistribution |-> [positive |-> 0, neutral |-> 0, negative |-> 0],
     topicFlow |-> <<>>,
     interactionMetrics |->
         [questionCount |-> 0, exclamationCount |-> 0, speakerSwitches |-> 0]]

\* A start that gives the initial analysis object for every argument
AnalyzeStart_Defaults(transcriptArray) == InitialAnalysis

\* if (!Array.isArray(transcriptArray)) return {}; const analysis = {...}
AnalyzeStart(transcriptArray) ==
    IF ~transcriptArray.isArray THEN EmptyObject ELSE InitialAnalysis

\* The property key a speakerId is converted to in analysis.speakerStats[speakerId]
PropertyKey(v) ==
    IF v.type = "string" THEN v.str
    ELSE IF v.type = "number" THEN numberToString(v.num)
    ELSE IF v.type = "null" THEN <<"n","u","l","l">>
    ELSE <<"u","n","d","e","f","i","n","e","d">>

\* Members every plain object inherits from Object.prototype: a lookup of one of
\* these keys on {} yields a (truthy) function or object, not undefined
ObjectPrototypeMembers ==
    {<<"c","o","n","s","t","r","u","c","t","o","r">>,
     <<"t","o","S","t","r","i","n","g">>,
     <<"v","a","l","u","e","O","f">>}

\* analysis.speakerStats[speakerId] is truthy
HasStats(stats, speakerId) ==
    \/ PropertyKey(speakerId) \in DOMAIN stats
    \/ PropertyKey(speakerId) \in ObjectPrototypeMembers

NewStats ==
    [totalTime |-> 0, wordCount |-> 0, sentenceCount |-> 0,
     avgWordsPerSentence |-> Ratio(0, 1)]

\* if (lastSpeaker && lastSpeaker !== speakerId)
IsSpeakerSwitch(last, speakerId) == Truthy(last) /\ last # speakerId

\* The head of one iteration over an entry that has a sentences array:
\* speaker switch and lazy creation of the speaker's stats
AnalyzeEntry(entry, an, last) ==
    LET speakerId == entry.speakerId
        switched ==
            IF IsSpeakerSwitch(last, speakerId)
            THEN [an EXCEPT !.interactionMetrics.speakerSwitches = @ + 1]
            ELSE an
    IN IF ~HasStats(an.speakerStats, speakerId)
       THEN [switched EXCEPT !.speakerStats =
                MapSet(an.speakerStats, PropertyKey(speakerId), NewStats)]
       ELSE switched

\* const text = sentence.text || ''
AnalyzedText(sentence) == Or(sentence.text, Str(<<>>))

\* text.split of a text that is not a string is a TypeError
AnalyzeThrows(sentence) == AnalyzedText(sentence).type # "string"

\* const words = text.split(' ').length
AnalyzedWords(sentence) == Len(split(AnalyzedText(sentence).str))

\* Index of the topicFlow record found by find(t => t.topic === entry.topic), or 0
FindTopic(topicFlow, topic) ==
    IF \E k \in 1..Len(topicFlow) : topicFlow[k].topic = topic
    THEN CHOOSE k \in 1..Len(topicFlow) :
             /\ topicFlow[k].topic = topic
             /\ \A m \in 1..(k - 1) : topicFlow[m].topic # topic
    ELSE 0

\* Topic tracking that merges a sentence only into the last record
TrackTopic_AdjacentOnly(topicFlow, entry, sentence, duration) ==
    IF ~Truthy(entry.topic) THEN topicFlow
    ELSE IF topicFlow # <<>> /\ topicFlow[Len(topicFlow)].topic = entry.topic
         THEN [topicFlow EXCEPT ![Len(topicFlow)].duration = @ + duration,
                                ![Len(topicFlow)].mentions = @ + 1]
         ELSE Append(topicFlow,
                  [topic |-> entry.topic,
                   startTime |-> MsToSeconds(sentence.start),
                   duration |-> duration,
                   mentions |-> 1])

\* Topic tracking of one sentence
TrackTopic(topicFlow, entry, sentence, duration) ==
    IF ~Truthy(entry.topic) THEN topicFlow
    ELSE LET k == FindTopic(topicFlow, entry.topic)
         IN IF k # 0
            THEN [topicFlow EXCEPT ![k].duration = @ + duration,
                                   ![k].mentions = @ + 1]
            ELSE Append(topicFlow,
                     [topic |-> entry.topic,
                      startTime |-> MsToSeconds(sentence.start),
                      duration |-> duration,
                      mentions |-> 1])

\* The speaker's stats after one sentence; the stats object is the speaker's own
\* entry of speakerStats
AddToStats(stats, key, duration, words) ==
    [stats EXCEPT ![key].totalTime = @ + duration,
                  ![key].wordCount = @ + words,
                  ![key].sentenceCount = @ + 1]

\* A loop body that counts every question mark and every exclamation mark
AnalyzeSentenceBody_PerMark(entry, sentence, an) ==
    LET text == AnalyzedText(sentence)
        duration == SentenceDuration(sentence)
        words == AnalyzedWords(sentence)
        key == PropertyKey(entry.speakerId)
        sentiment == analyzeSentence(text)
    IN [speakerStats |->
            IF key \in DOMAIN an.speakerStats
            THEN AddToStats(an.speakerStats, key, duration, words)
            ELSE an.speakerStats,
        totalDuration |-> an.totalDuration + duration,
        totalWords |-> an.totalWords + words,
        sentimentDistribution |->
            [an.sentimentDistribution EXCEPT ![sentiment] = @ + 1],
        topicFlow |-> TrackTopic(an.topicFlow, entry, sentence, duration),
        interactionMetrics |->
            [an.interactionMetrics EXCEPT
                !.questionCount =
                    @ + Cardinality({k \in 1..Len(text.str) : text.str[k] = "?"}),
                !.exclamationCount =
                    @ + Cardinality({k \in 1..Len(text.str) : text.str[k] = "!"})]]

\* The body of for (const sentence of entry.sentences), for a sentence that
\* does not throw
AnalyzeSentenceBody(entry, sentence, an) ==
    LET text == AnalyzedText(sentence)
        duration == SentenceDuration(sentence)
        words == AnalyzedWords(sentence)
        key == PropertyKey(entry.speakerId)
        sentiment == analyzeSentence(text)
    IN [speakerStats |->
            IF key \in DOMAIN an.speakerStats
            THEN AddToStats(an.speakerStats, key, duration, words)
            ELSE an.speakerStats,
        totalDuration |-> an.totalDuration + duration,
        totalWords |-> an.totalWords + words,
        sentimentDistribution |->
            [an.sentimentDistribution EXCEPT ![sentiment] = @ + 1],
        topicFlow |-> TrackTopic(an.topicFlow, entry, sentence, duration),
        interactionMetrics |->
            [an.interactionMetrics EXCEPT
                !.questionCount = IF includes(text.str, <<"?">>) THEN @ + 1 ELSE @,
                !.exclamationCount = IF includes(text.str, <<"!">>) THEN @ + 1 ELSE @]]

\* The stats object is not the speaker's own: the three += of the sentence write
\* totalTime, wordCount and sentenceCount on the inherited member
WritesInherited(entry, an) ==
    PropertyKey(entry.speakerId) \notin DOMAIN an.speakerStats

\* Calculate averages: Object.keys(analysis.speakerStats).forEach(...)
FinishAnalysis(an) ==
    [an EXCEPT !.speakerStats =
        [key \in DOMAIN an.speakerStats |->
            LET stats == an.speakerStats[key]
            IN [totalTime |-> stats.totalTime,
                wordCount |-> stats.wordCount,
                sentenceCount |-> stats.sentenceCount,
                avgWordsPerSentence |->
                    IF stats.sentenceCount > 0
                    THEN Ratio(stats.wordCount, stats.sentenceCount)
                    ELSE Ratio(0, 1),
                talkTimePercentage |->
                    IF an.totalDuration > 0
                    THEN Ratio(stats.totalTime * 100, an.totalDuration)
                    ELSE Ratio(0, 1)]]]

---------------------------------------------------------------------------
(* extractConversationText *)

\* A label with a space before the number
ExtractLabel_WithSpace(map) ==
    <<"S","p","e","a","k","e","r"," ">> \o toString(MapSize(map) + 1)

\* `Speaker${speakerMap.size + 1}`
ExtractLabel(map) == <<"S","p","e","a","k","e","r">> \o toString(MapSize(map) + 1)

\* sentence.text?.trim() of a text that is neither a string nor null/undefined
\* is a TypeError
ExtractThrows(sentence) ==
    sentence.text.type \notin {"string", "undefined", "null"}

\* A test of the text without trim
HasLine_NoTrim(sentence) ==
    sentence.text.type = "string" /\ sentence.text.str # <<>>

\* if (sentence.text?.trim())
HasLine(sentence) ==
    sentence.text.type = "string" /\ trim(sentence.text.str) # <<>>

\* `${speakerName}: ${sentence.text.trim()}`
ConversationLine(speakerName, sentence) ==
    speakerName \o <<":", " ">> \o trim(sentence.text.str)

\* The inner loop from state st = [out, map, thrown]
RECURSIVE ExtractSentences(_, _, _)
ExtractSentences(speakerName, sentences, st) ==
    IF sentences = <<>> \/ st.thrown THEN st
    ELSE LET sentence == Head(sentences)
         IN IF ExtractThrows(sentence) THEN [st EXCEPT !.thrown = TRUE]
            ELSE ExtractSentences(speakerName, Tail(sentences),
                     IF HasLine(sentence)
                     THEN [st EXCEPT !.out =
                              Append(@, ConversationLine(speakerName, sentence))]
                     ELSE st)

\* One iteration of for (const entry of transcriptArray)
ExtractEntry(entry, st) ==
    IF ~HasSentences(entry) THEN st
    ELSE LET speakerId == entry.speakerId
             known == speakerId \in DOMAIN st.map
             speakerName == IF known THEN st.map[speakerId] ELSE ExtractLabel(st.map)
             map == IF known THEN st.map ELSE MapSet(st.map, speakerId, speakerName)
         IN ExtractSentences(speakerName, entry.sentences.items,
                [out |-> st.out, map |-> map, thrown |-> FALSE])

---------------------------------------------------------------------------
(* Inputs *)

MaxEntries == 2
MaxSentences == 2
MaxLookups == 4

Sentence(text, start, end) == [text |-> text, start |-> start, end |-> end]

\* An entry with a sentences array
SentenceEntry(speakerId, topic, items) ==
    [speakerId |-> speakerId, topic |-> topic, sentences |-> Array(items),
     sentence |-> Undefined, text |-> Undefined,
     startTime |-> Undefined, endTime |-> Undefined]

\* An entry of the legacy shape, without a sentences array
FallbackEntry(speakerId, topic, sentence, text, startTime, endTime) ==
    [speakerId |-> speakerId, topic |-> topic, sentences |-> NoArray,
     sentence |-> sentence, text |-> text,
     startTime |-> startTime, endTime |-> endTime]

\* The entries of a domain dom = [heads, sentences, fallbacks] that hold k
\* sentences: heads are the <<speakerId, topic>> of the entries with a sentences
\* array, fallbacks the entries without one
EntriesWith(dom, k) ==
    IF k = 0
    THEN {SentenceEntry(h[1], h[2], <<>>) : h \in dom.heads} \cup dom.fallbacks
    ELSE {SentenceEntry(h[1], h[2], items) :
              h \in dom.heads, items \in [1..k -> dom.sentences]}

\* The number of sentences the entries of an array hold
RECURSIVE TotalSentences(_)
TotalSentences(items) ==
    IF items = <<>> THEN 0
    ELSE Len(Head(items).sentences.items) + TotalSentences(Tail(items))

\* The entries of the domain the array may hold next: it holds at most
\* MaxEntries entries and MaxSentences sentences
NextEntries(dom, items) ==
    IF Len(items) >= MaxEntries THEN {}
    ELSE UNION {EntriesWith(dom, k) : k \in 0..(MaxSentences - TotalSentences(items))}

SpeakerA == Str(<<"A">>)
SpeakerB == Str(<<"B">>)
SpeakerEmpty == Str(<<>>)
SpeakerConstructor == Str(<<"c","o","n","s","t","r","u","c","t","o","r">>)
Pricing == Str(<<"p","r","i","c","i","n","g">>)
HiThere == Str(<<"H","i"," ","t","h","e","r","e">>)
Hello == Str(<<"H","e","l","l","o">>)
GreatProblem == Str(<<"g","r","e","a","t"," ","p","r","o","b","l","e","m","?">>)

\* Inputs of the pipeline specification
SpecSentences ==
    {Sentence(HiThere, Num(1000), Num(3000)),
     Sentence(Undefined, Undefined, Undefined),
     Sentence(Str(<<>>), Num(0), Num(2000)),
     Sentence(GreatProblem, Num(2000), Num(1000)),
     Sentence(Num(5), Num(1000), Num(2000)),
     Sentence(Num(0), Num(1000), Num(2000))}
SpecDomain ==
    [heads |-> {SpeakerEmpty, SpeakerA, SpeakerB, SpeakerConstructor} \X {Undefined},
     sentences |-> SpecSentences,
     fallbacks |->
        {FallbackEntry(s, Undefined, Undefined, Hello, Undefined, Undefined) :
            s \in {SpeakerA, SpeakerB}}]

---------------------------------------------------------------------------
(* The three functions as whole calls *)

\* A map that outlives the call: the one of the callback of the other transcript
NewMap_Static == other.speakerMap

\* A map shared with the callback that is running
NewMap_Shared == speakerMap

\* const speakerMap = new Map()
NewMap == EmptyMap

\* for (const entry of transcriptArray) of processTranscriptEntries
RECURSIVE ProcessEntries(_, _)
ProcessEntries(items, st) ==
    IF items = <<>> \/ st.thrown THEN st
    ELSE ProcessEntries(Tail(items), ProcessEntry(Head(items), st))

\* processTranscriptEntries(transcriptArray): [out, map, thrown]
processTranscriptEntries(transcriptArray) ==
    IF ~transcriptArray.isArray
    THEN [out |-> <<>>, map |-> EmptyMap, thrown |-> FALSE]
    ELSE ProcessEntries(transcriptArray.items,
                        [out |-> <<>>, map |-> NewMap, thrown |-> FALSE])

\* for (const sentence of entry.sentences) of analyzeTranscriptContent, from
\* state st = [an, last, thrown, writes]
RECURSIVE AnalyzeSentences(_, _, _)
AnalyzeSentences(entry, sentences, st) ==
    IF sentences = <<>> \/ st.thrown THEN st
    ELSE IF AnalyzeThrows(Head(sentences)) THEN [st EXCEPT !.thrown = TRUE]
    ELSE AnalyzeSentences(entry, Tail(sentences),
             [st EXCEPT !.an = AnalyzeSentenceBody(entry, Head(sentences), st.an),
                        !.writes = IF WritesInherited(entry, st.an)
                                   THEN @ \cup {PropertyKey(entry.speakerId)}
                                   ELSE @])

\* for (const entry of transcriptArray) of analyzeTranscriptContent
RECURSIVE AnalyzeEntries(_, _)
AnalyzeEntries(items, st) ==
    IF items = <<>> \/ st.thrown THEN st
    ELSE LET entry == Head(items)
         IN AnalyzeEntries(Tail(items),
                IF HasSentences(entry)
                THEN AnalyzeSentences(entry, entry.sentences.items,
                         [st EXCEPT !.an = AnalyzeEntry(entry, st.an, st.last),
                                    !.last = entry.speakerId])
                ELSE st)

\* analyzeTranscriptContent(transcriptArray): [an, last, thrown, writes], an the
\* returned object and writes the inherited members written
analyzeTranscriptContent(transcriptArray) ==
    IF ~transcriptArray.isArray
    THEN [an |-> AnalyzeStart(transcriptArray), last |-> Null,
          thrown |-> FALSE, writes |-> {}]
    ELSE LET st == AnalyzeEntries(transcriptArray.items,
                       [an |-> AnalyzeStart(transcriptArray), last |-> Null,
                        thrown |-> FALSE, writes |-> {}])
         IN IF st.thrown THEN st ELSE [st EXCEPT !.an = FinishAnalysis(st.an)]

\* for (const entry of transcriptArray) of extractConversationText
RECURSIVE ExtractEntries(_, _)
ExtractEntries(items, st) ==
    IF items = <<>> \/ st.thrown THEN st
    ELSE ExtractEntries(Tail(items), ExtractEntry(Head(items), st))

\* extractConversationText(transcriptArray): [text, thrown]
extractConversationText(transcriptArray) ==
    IF ~transcriptArray.isArray THEN [text |-> <<>>, thrown |-> FALSE]
    ELSE LET st == ExtractEntries(transcriptArray.items,
                       [out |-> <<>>, map |-> EmptyMap, thrown |-> FALSE])
         IN [text |-> join(st.out), thrown |-> st.thrown]

\* The callback of the other transcript before its first call
IdleCall ==
    [pc |-> "idle", transcript |-> NoArray, processedEntries |-> <<>>,
     speakerMap |-> EmptyMap, analysis |-> EmptyObject, conversationText |-> <<>>]

---------------------------------------------------------------------------
(* The map callback of transcriptHandler on one transcript *)

Entries == transcript.items

\* Nothing outside the callback has run
ServiceIdle ==
    /\ seconds = Undefined
    /\ timestamp = <<>>
    /\ aiConversationText = <<>>
    /\ request = [callIds |-> NoArray, batchSize |-> 0]
    /\ handlerPc = "idle"
    /\ loopIndex = 0
    /\ batches = <<>>
    /\ allResults = <<>>
    /\ responses = <<>>
    /\ secretsCache = {}
    /\ lastSecretRefresh = 0
    /\ clock = CACHE_DURATION
    /\ calls = <<>>

\* The argument is an array, whose entries are drawn as the first loop over it
\* reads them, or it is not an array
Init ==
    /\ transcript \in {Array(<<>>), NoArray}
    /\ pc = "process"
    /\ i = 0
    /\ j = 0
    /\ processedEntries = <<>>
    /\ speakerMap = EmptyMap
    /\ analysis = InitialAnalysis
    /\ lastSpeaker = Null
    /\ conversation = <<>>
    /\ extractMap = EmptyMap
    /\ conversationText = <<>>
    /\ protoWrites = {}
    /\ lookups = <<>>
    /\ labels = <<>>
    /\ replayMap = EmptyMap
    /\ replayLabels = <<>>
    /\ other = IdleCall
    /\ ServiceIdle

resolverVars == <<lookups, labels, replayMap, replayLabels>>
processVars == <<processedEntries, speakerMap>>
analyzeVars == <<analysis, lastSpeaker, protoWrites>>
extractVars == <<conversation, extractMap, conversationText>>

\* processTranscriptEntries: one iteration of its loop over the entries, which
\* finds entry as the next element of the array
ProcessStep(entry) ==
    /\ pc = "process"
    /\ transcript.isArray
    /\ i = Len(Entries)
    /\ transcript' = Array(Append(Entries, entry))
    /\ LET st == ProcessEntry(entry,
                     [out |-> processedEntries, map |-> speakerMap, thrown |-> FALSE])
       IN /\ processedEntries' = st.out
          /\ speakerMap' = st.map
          /\ pc' = IF st.thrown THEN "thrown" ELSE "process"
    /\ i' = i + 1
    /\ UNCHANGED <<j, analyzeVars, extractVars, resolverVars, other, serviceVars>>

\* processTranscriptEntries has reached the end of the array and returned (for
\* an argument that is no array, at once); analyzeTranscriptContent is called: return {} or const analysis = {...}
AnalyzeCall ==
    /\ pc = "process"
    /\ ~transcript.isArray \/ i = Len(Entries)
    /\ analysis' = AnalyzeStart(transcript)
    /\ lastSpeaker' = Null
    /\ pc' = IF transcript.isArray THEN "analyze" ELSE "extract"
    /\ i' = 0
    /\ j' = 0
    /\ UNCHANGED <<transcript, protoWrites, processVars, extractVars, resolverVars, other, serviceVars>>

\* analyzeTranscriptContent: the next entry is taken; one with a sentences array
\* has its speaker switch counted and its stats created
AnalyzeEntryStep ==
    /\ pc = "analyze"
    /\ i < Len(Entries)
    /\ LET entry == Entries[i + 1]
       IN IF HasSentences(entry)
          THEN /\ analysis' = AnalyzeEntry(entry, analysis, lastSpeaker)
               /\ lastSpeaker' = entry.speakerId
               /\ pc' = IF entry.sentences.items = <<>> THEN "analyze" ELSE "sentences"
          ELSE UNCHANGED <<analysis, lastSpeaker, pc>>
    /\ i' = i + 1
    /\ j' = 0
    /\ UNCHANGED <<transcript, protoWrites, processVars, extractVars, resolverVars, other, serviceVars>>

\* analyzeTranscriptContent: one sentence of the current entry
AnalyzeSentenceStep ==
    /\ pc = "sentences"
    /\ LET entry == Entries[i]
           sentence == entry.sentences.items[j + 1]
       IN IF AnalyzeThrows(sentence)
          THEN /\ pc' = "thrown"
               /\ UNCHANGED <<analysis, protoWrites>>
          ELSE /\ analysis' = AnalyzeSentenceBody(entry, sentence, analysis)
               /\ protoWrites' =
                      IF WritesInherited(entry, analysis)
                      THEN protoWrites \cup {PropertyKey(entry.speakerId)}
                      ELSE protoWrites
               /\ pc' = IF j + 1 = Len(entry.sentences.items)
                        THEN "analyze" ELSE "sentences"
    /\ j' = j + 1
    /\ UNCHANGED <<transcript, i, lastSpeaker, processVars, extractVars, resolverVars, other, serviceVars>>

\* analyzeTranscriptContent: the averages are calculated and analysis returned;
\* extractConversationText is called
AnalyzeReturn ==
    /\ pc = "analyze"
    /\ i = Len(Entries)
    /\ analysis' = FinishAnalysis(analysis)
    /\ pc' = "extract"
    /\ i' = 0
    /\ UNCHANGED <<transcript, j, lastSpeaker, protoWrites, processVars, extractVars,
                   resolverVars, other, serviceVars>>

\* extractConversationText: one iteration of its loop over the entries
ExtractStep ==
    /\ pc = "extract"
    /\ transcript.isArray
    /\ i < Len(Entries)
    /\ LET st == ExtractEntry(Entries[i + 1],
                     [out |-> conversation, map |-> extractMap, thrown |-> FALSE])
       IN /\ conversation' = st.out
          /\ extractMap' = st.map
          /\ pc' = IF st.thrown THEN "thrown" ELSE "extract"
    /\ i' = i + 1
    /\ UNCHANGED <<transcript, j, conversationText, processVars, analyzeVars,
                   resolverVars, other, serviceVars>>

\* extractConversationText returns conversation.join('\n'), or '' at once for an
\* argument that is no array
ExtractReturn ==
    /\ pc = "extract"
    /\ ~transcript.isArray \/ i = Len(Entries)
    /\ conversationText' = join(conversation)
    /\ pc' = "done"
    /\ UNCHANGED <<transcript, i, j, conversation, extractMap, processVars,
                   analyzeVars, resolverVars, other, serviceVars>>

Next ==
    \/ \E entry \in NextEntries(SpecDomain, Entries) : ProcessStep(entry)
    \/ AnalyzeCall
    \/ AnalyzeEntryStep
    \/ AnalyzeSentenceStep
    \/ AnalyzeReturn
    \/ ExtractStep
    \/ ExtractReturn

Spec == Init /\ [][Next]_vars

---------------------------------------------------------------------------
(* processTranscriptEntries alone, on entries of the documented shape (text a  *)
(* string or absent).  The array may end after any entry, and processedEntries *)
(* is then what the function returns.                                          *)

Great == Str(<<"g","r","e","a","t">>)

NormalizeSentences ==
    {Sentence(HiThere, Num(1000), Num(3000)),
     Sentence(Undefined, Undefined, Undefined),
     Sentence(Str(<<>>), Num(0), Num(2000))}

NormalizeDomain ==
    [heads |-> {SpeakerA, SpeakerEmpty} \X {Undefined, Str(<<>>), Pricing},
     sentences |-> NormalizeSentences,
     fallbacks |->
        {FallbackEntry(SpeakerB, Undefined, sentence, text, time[1], time[2]) :
            sentence \in {Undefined, Str(<<>>), Great},
            text \in {Undefined, HiThere},
            time \in {<<Undefined, Undefined>>, <<Num(5), Num(7)>>}}]

NextNormalize ==
    \E entry \in NextEntries(NormalizeDomain, Entries) : ProcessStep(entry)

SpecNormalize == Init /\ [][NextNormalize]_vars

---------------------------------------------------------------------------
(* The Speaker Resolver alone: two runs of getSpeakerName, each on its own    *)
(* fresh Map, performing the same sequence of lookups.  Run 1 chooses the     *)
(* lookups; run 2 repeats them, at any later time.                            *)

ResolverIds == {SpeakerEmpty, SpeakerA, SpeakerB, SpeakerConstructor}

InitResolver ==
    /\ transcript = NoArray
    /\ pc = "resolver"
    /\ i = 0
    /\ j = 0
    /\ processedEntries = <<>>
    /\ speakerMap = EmptyMap
    /\ analysis = InitialAnalysis
    /\ lastSpeaker = Null
    /\ conversation = <<>>
    /\ extractMap = EmptyMap
    /\ conversationText = <<>>
    /\ protoWrites = {}
    /\ lookups = <<>>
    /\ labels = <<>>
    /\ replayMap = EmptyMap
    /\ replayLabels = <<>>
    /\ other = IdleCall
    /\ ServiceIdle

callVars == <<transcript, pc, i, j, processedEntries, analysis, lastSpeaker,
              conversation, extractMap, conversationText, protoWrites, other, serviceVars>>

\* Run 1: getSpeakerName(speakerId, speakerMap)
Lookup(speakerId) ==
    /\ pc = "resolver"
    /\ Len(lookups) < MaxLookups
    /\ lookups' = Append(lookups, speakerId)
    /\ labels' = Append(labels, getSpeakerName(speakerId, speakerMap))
    /\ speakerMap' = getSpeakerNameMap(speakerId, speakerMap)
    /\ UNCHANGED <<callVars, replayMap, replayLabels>>

\* Run 2: the next lookup of the same sequence, on replayMap
Replay ==
    /\ pc = "resolver"
    /\ Len(replayLabels) < Len(lookups)
    /\ LET speakerId == lookups[Len(replayLabels) + 1]
       IN /\ replayLabels' = Append(replayLabels, getSpeakerName(speakerId, replayMap))
          /\ replayMap' = getSpeakerNameMap(speakerId, replayMap)
    /\ UNCHANGED <<callVars, speakerMap, lookups, labels>>

NextResolver ==
    \/ \E speakerId \in ResolverIds : Lookup(speakerId)
    \/ Replay

SpecResolver == InitResolver /\ [][NextResolver]_vars

---------------------------------------------------------------------------
(* Claims *)

\* The speakerIds of a sequence of lookups, each once, in order of first lookup
RECURSIVE FirstSeen(_)
FirstSeen(ids) ==
    IF ids = <<>> THEN <<>>
    ELSE LET before == FirstSeen(SubSeq(ids, 1, Len(ids) - 1))
             id == ids[Len(ids)]
         IN IF \E k \in 1..Len(before) : before[k] = id
            THEN before ELSE Append(before, id)

\* The position of id in a sequence that holds it once
PositionIn(seq, id) == CHOOSE k \in 1..Len(seq) : seq[k] = id

\* The label "Speaker k", for k below 10
SpeakerK(k) == <<"S","p","e","a","k","e","r"," ", Digits[k + 1]>>

\* C2 (state part): after any sequence of lookups on one map, the k-th distinct
\* speakerId looked up is mapped to "Speaker k" and nothing else is mapped, every
\* lookup returned the label of its speakerId, and no two speakerIds share a label.
C2_Numbering ==
    LET seen == FirstSeen(lookups)
    IN /\ DOMAIN speakerMap = {seen[k] : k \in 1..Len(seen)}
       /\ \A k \in 1..Len(seen) : speakerMap[seen[k]] = SpeakerK(k)
       /\ \A n \in 1..Len(lookups) :
              labels[n] = SpeakerK(PositionIn(seen, lookups[n]))
       /\ \A a, b \in DOMAIN speakerMap :
              a # b => speakerMap[a] # speakerMap[b]

\* C2 (step part): a lookup of a speakerId that is already mapped returns the
\* remembered label and leaves the map as it is, and no lookup changes or removes
\* an existing mapping.
C2_Step ==
    /\ \A id \in DOMAIN speakerMap :
           id \in DOMAIN speakerMap' /\ speakerMap'[id] = speakerMap[id]
    /\ (Len(lookups') = Len(lookups) + 1
        /\ lookups'[Len(lookups')] \in DOMAIN speakerMap)
       => /\ speakerMap' = speakerMap
          /\ labels'[Len(labels')] = speakerMap[lookups'[Len(lookups')]]

\* C2: Speaker Resolver on one map: the k-th distinct speakerId seen (the empty
\* string included) is labelled "Speaker k"; a lookup of a seen speakerId returns
\* its remembered label and leaves the map unchanged; distinct speakerIds never
\* share a label and a mapping is never changed or removed.
C2_Resolver == [](C2_Numbering) /\ [][C2_Step]_vars

\* C2 witness: three distinct speakerIds, the empty string among them, were
\* labelled and one of them was looked up again
C2_Witness ==
    /\ Len(lookups) = 4
    /\ MapSize(speakerMap) = 3
    /\ SpeakerEmpty \in DOMAIN speakerMap
    /\ speakerMap[SpeakerEmpty] = SpeakerK(2)

---------------------------------------------------------------------------
(* Claims about processTranscriptEntries *)

\* The number of utterances an entry contributes: one per sentence of its
\* sentences array, one for an entry without a sentences array
UtterancesOf(entry) ==
    IF entry.sentences.isArray THEN Len(entry.sentences.items) ELSE 1

\* The number of utterances the entries before the k-th contribute
RECURSIVE UtterancesBefore(_, _)
UtterancesBefore(items, k) ==
    IF k <= 1 THEN 0
    ELSE UtterancesBefore(items, k - 1) + UtterancesOf(items[k - 1])

\* The speakerIds of the first k entries that contribute an utterance, in order
RECURSIVE NamedSpeakers(_, _)
NamedSpeakers(items, k) ==
    IF k = 0 THEN <<>>
    ELSE IF UtterancesOf(items[k]) > 0
         THEN Append(NamedSpeakers(items, k - 1), items[k].speakerId)
         ELSE NamedSpeakers(items, k - 1)

\* The name the resolver of the call gives the speaker of the k-th entry
ResolvedName(items, k) ==
    SpeakerK(PositionIn(FirstSeen(NamedSpeakers(items, k)), items[k].speakerId))

\* value is ms / 1000 seconds, and 0 for an absent ms
IsSecondsOf(value, ms) ==
    /\ value.type = "number"
    /\ IF ms = Undefined THEN value.num = 0 ELSE value.num * 1000 = ms.num

\* The example of the specification: one sentence "Hi there" from 1000 to 3000 ms
\* of speaker A as the first entry
ExampleHolds ==
    (/\ Len(Entries) >= 1
     /\ Entries[1].speakerId = SpeakerA
     /\ Entries[1].sentences = Array(<<Sentence(HiThere, Num(1000), Num(3000))>>))
    => /\ Len(processedEntries) >= 1
       /\ processedEntries[1].startTime = Num(1)
       /\ processedEntries[1].endTime = Num(3)
       /\ processedEntries[1].duration = 2
       /\ processedEntries[1].wordCount = 2
       /\ processedEntries[1].timestamp = <<"0","0",":","0","1">>
       /\ processedEntries[1].speakerName = SpeakerK(1)

\* Every entry with a non-empty sentences array has one utterance per sentence,
\* in array order, after the utterances of the earlier entries, with the entry's
\* speakerId, its topic (null for the topics of nullTopics), the times in seconds
\* and the resolver's name
SentenceUtterancesHold(nullTopics) ==
    /\ \A k \in 1..Len(Entries) :
         LET entry == Entries[k]
             first == UtterancesBefore(Entries, k)
         IN (entry.sentences.isArray /\ entry.sentences.items # <<>>) =>
              /\ first + Len(entry.sentences.items) <= Len(processedEntries)
              /\ \A n \in 1..Len(entry.sentences.items) :
                   LET u == processedEntries[first + n]
                       sentence == entry.sentences.items[n]
                   IN /\ u.speakerId = entry.speakerId
                      /\ u.topic = IF entry.topic \in nullTopics
                                   THEN Null ELSE entry.topic
                      /\ IsSecondsOf(u.startTime, sentence.start)
                      /\ IsSecondsOf(u.endTime, sentence.end)
                      /\ u.speakerName = ResolvedName(Entries, k)
    /\ ExampleHolds

\* C4 as stated: for an entry whose sentences is a non-empty array,
\* processTranscriptEntries emits one utterance per sentence, in array order and
\* after the utterances of earlier entries, each with the entry's speakerId, the
\* entry's topic (null if absent), startTime = start/1000, endTime = end/1000
\* (0 when absent) and the name given by the resolver of the call.
C4_TopicNullIfAbsent ==
    pc = "process" => SentenceUtterancesHold({Undefined})

\* C4 as amended: the same, with topic null if the entry's topic is absent or the
\* empty string.
C4_SentenceUtterances ==
    pc = "process" => SentenceUtterancesHold({Undefined, Str(<<>>)})

\* C4 witness: a second entry with two sentences and a topic was processed after
\* an entry that contributed a fallback utterance
C4_Witness ==
    /\ pc = "process"
    /\ Len(Entries) = 2
    /\ ~Entries[1].sentences.isArray
    /\ Len(Entries[2].sentences.items) = 2
    /\ Entries[2].topic = Pricing
    /\ Len(processedEntries) = 3

\* v is present: neither undefined nor null
Present(v) == v.type \notin {"undefined", "null"}

\* v is a string that is not empty
NonEmpty(v) == v.type = "string" /\ v.str # <<>>

\* Every entry without a sentences array has exactly one utterance, whose
\* sentence is entry.sentence if Chosen(entry.sentence), else entry.text if
\* Chosen(entry.text), else "No content available"; its times are the entry's
\* or 0, and duration 0, wordCount 0, sentiment neutral
FallbackHolds(Chosen(_)) ==
    \A k \in 1..Len(Entries) :
      LET entry == Entries[k]
          first == UtterancesBefore(Entries, k)
      IN ~entry.sentences.isArray =>
           /\ first + 1 <= Len(processedEntries)
           /\ UtterancesBefore(Entries, k + 1) = first + 1
           /\ LET u == processedEntries[first + 1]
              IN /\ u.speakerId = entry.speakerId
                 /\ u.sentence =
                        IF Chosen(entry.sentence) THEN entry.sentence
                        ELSE IF Chosen(entry.text) THEN entry.text
                        ELSE Str(<<"N","o"," ","c","o","n","t","e","n","t"," ","a","v","a","i","l","a","b","l","e">>)
                 /\ u.startTime =
                        IF entry.startTime = Undefined THEN Num(0) ELSE entry.startTime
                 /\ u.endTime =
                        IF entry.endTime = Undefined THEN Num(0) ELSE entry.endTime
                 /\ u.duration = 0
                 /\ u.wordCount = 0
                 /\ u.sentiment = "neutral"

\* C5 as stated: an entry with no sentences array gives exactly one utterance
\* whose sentence is entry.sentence when that field is present (the empty string
\* included), else entry.text when present, else "No content available";
\* startTime and endTime are the entry's or 0; duration 0, wordCount 0 and
\* sentiment "neutral" whatever the text says.
C5_SentenceWhenPresent ==
    pc = "process" => FallbackHolds(Present)

\* C5 as amended: the same, with entry.sentence and entry.text taken only when
\* they are non-empty strings (an empty string is passed over like an absent
\* field).
C5_Fallback ==
    pc = "process" => FallbackHolds(NonEmpty)

\* C5 witness: a fallback utterance was made from an entry whose sentence is the
\* empty string and whose text says "Hi there"
C5_Witness ==
    /\ pc = "process"
    /\ Len(Entries) = 2
    /\ ~Entries[2].sentences.isArray
    /\ Entries[2].sentence = Str(<<>>)
    /\ Entries[2].text = HiThere
    /\ processedEntries[Len(processedEntries)].sentence = HiThere

\* The sum over the entries of max(1, number of sentences)
RECURSIVE AtLeastOneEach(_)
AtLeastOneEach(items) ==
    IF items = <<>> THEN 0
    ELSE LET n == Len(Head(items).sentences.items)
         IN (IF n > 1 THEN n ELSE 1) + AtLeastOneEach(Tail(items))

\* C6 as stated: processTranscriptEntries emits at least one utterance for every
\* entry: one per sentence for a non-empty sentences array and one fallback
\* utterance for every other entry (sentences absent, or an empty array), so the
\* output length is the sum over the entries of max(1, number of sentences).
C6_AtLeastOnePerEntry ==
    pc = "process" => Len(processedEntries) = AtLeastOneEach(Entries)

\* C6 as amended: an entry whose sentences is an array contributes one utterance
\* per sentence, none when the array is empty; an entry without a sentences array
\* contributes exactly one; the output length is the sum of these numbers, and
\* the utterances of an entry carry its speakerId.
C6_OutputLength ==
    pc = "process" =>
      /\ Len(processedEntries) = UtterancesBefore(Entries, Len(Entries) + 1)
      /\ \A k \in 1..Len(Entries) :
           \A n \in 1..UtterancesOf(Entries[k]) :
             processedEntries[UtterancesBefore(Entries, k) + n].speakerId
                 = Entries[k].speakerId

\* C6 witness: an entry with an empty sentences array and an entry without a
\* sentences array were processed, and one utterance was emitted
C6_Witness ==
    /\ pc = "process"
    /\ Len(Entries) = 2
    /\ Entries[1].sentences = Array(<<>>)
    /\ ~Entries[2].sentences.isArray
    /\ Len(processedEntries) = 1

---------------------------------------------------------------------------
(* Claims about analyzeTranscriptContent and the three functions together *)

\* analyzeTranscriptContent is in its loop over an array, or has returned from it
Analyzing == transcript.isArray /\ pc \in {"analyze", "sentences", "extract", "done"}

\* analyzeTranscriptContent has returned the analysis of an array
Analyzed == transcript.isArray /\ pc \in {"extract", "done"}

\* The sum of totalTime over the speakers of speakerStats
RECURSIVE SumTotalTime(_)
SumTotalTime(stats) ==
    IF DOMAIN stats = {} THEN 0
    ELSE LET key == CHOOSE k \in DOMAIN stats : TRUE
         IN stats[key].totalTime
              + SumTotalTime([k \in DOMAIN stats \ {key} |-> stats[k]])

\* C1: for every entries array, after analyzeTranscriptContent has processed any
\* prefix of the sentences, and at return, the sum of speakerStats[s].totalTime
\* over all speakers s equals totalDuration.
C1_TotalTimeSum ==
    Analyzing => SumTotalTime(analysis.speakerStats) = analysis.totalDuration

\* C7: totality: for every entries array whose sentences carry a text that is
\* missing or not a string, processTranscriptEntries, analyzeTranscriptContent
\* and extractConversationText return normally and never end in an exception.
C7_Totality == pc # "thrown"

\* C8 as stated: analyzeTranscriptContent called with an argument that is no
\* array returns an analytics object with all fields at their defaults, the same
\* object it returns for the empty array.
C8_NonArrayDefaults ==
    (~transcript.isArray /\ pc \in {"extract", "done"}) => analysis = InitialAnalysis

\* C8 as amended: analyzeTranscriptContent called with an argument that is no
\* array returns an object without any field; the object with all fields at
\* their defaults is what it returns for the empty array.
C8_NonArrayEmptyObject ==
    /\ (~transcript.isArray /\ pc \in {"extract", "done"}) => DOMAIN analysis = {}
    /\ (transcript = Array(<<>>) /\ pc \in {"extract", "done"})
           => analysis = InitialAnalysis

\* C8 witness: analyzeTranscriptContent has returned for an argument that is no
\* array
C8_Witness ==
    /\ ~transcript.isArray
    /\ pc = "extract"
    /\ analysis = EmptyObject

\* The utterances of processedEntries made from sentences, for the first k entries
RECURSIVE SentenceDerived(_, _)
SentenceDerived(items, k) ==
    IF k = 0 THEN <<>>
    ELSE SentenceDerived(items, k - 1)
           \o (IF items[k].sentences.isArray
               THEN SubSeq(processedEntries, UtterancesBefore(items, k) + 1,
                           UtterancesBefore(items, k + 1))
               ELSE <<>>)

RECURSIVE SumWordCount(_)
SumWordCount(utterances) ==
    IF utterances = <<>> THEN 0
    ELSE Head(utterances).wordCount + SumWordCount(Tail(utterances))

RECURSIVE SumDuration(_)
SumDuration(utterances) ==
    IF utterances = <<>> THEN 0
    ELSE Head(utterances).duration + SumDuration(Tail(utterances))

CountSentiment(utterances, sentiment) ==
    Cardinality({k \in 1..Len(utterances) : utterances[k].sentiment = sentiment})

\* C9: normalizer and analyzer agree on every sentence: totalWords,
\* totalDuration and sentimentDistribution of analyzeTranscriptContent equal the
\* sum of wordCount, the sum of duration and the counts of sentiment over the
\* utterances processTranscriptEntries made from sentences, sentences whose text
\* is absent or empty included.
C9_Agreement ==
    Analyzed =>
      LET utterances == SentenceDerived(Entries, Len(Entries))
      IN /\ analysis.totalWords = SumWordCount(utterances)
         /\ analysis.totalDuration = SumDuration(utterances)
         /\ \A sentiment \in {"positive", "neutral", "negative"} :
              analysis.sentimentDistribution[sentiment]
                  = CountSentiment(utterances, sentiment)

\* The entries that have a sentences array
WithSentences(items) == SelectSeq(items, LAMBDA entry : entry.sentences.isArray)

\* The number of adjacent pairs of seq whose speakerIds differ
AdjacentSwitches(seq) ==
    Cardinality({k \in 1..(Len(seq) - 1) : seq[k].speakerId # seq[k + 1].speakerId})

\* C10: speakerSwitches returned by analyzeTranscriptContent is the number of
\* adjacent pairs, in the subsequence of the entries that have a sentences array,
\* whose speakerIds differ; this holds for every string speakerId, the empty
\* string included.
C10_SpeakerSwitches ==
    Analyzed =>
      analysis.interactionMetrics.speakerSwitches
          = AdjacentSwitches(WithSentences(Entries))

---------------------------------------------------------------------------
(* The scan of analyzeTranscriptContent over entries with topics *)

MaxTopicEntries == 3
MaxTopicSentences == 3

\* The entries of the domain an array of at most maxEntries entries and
\* maxSentences sentences may hold next
NextEntriesWithin(dom, items, maxEntries, maxSentences) ==
    IF Len(items) >= maxEntries THEN {}
    ELSE UNION {EntriesWith(dom, k) : k \in 0..(maxSentences - TotalSentences(items))}

Budget == Str(<<"b","u","d","g","e","t">>)

\* Sentences of 5 and of 7 seconds, and one without a start
TopicSentences ==
    {Sentence(Hello, Num(1000), Num(6000)),
     Sentence(Hello, Num(2000), Num(9000)),
     Sentence(Hello, Undefined, Num(3000))}

TopicDomain ==
    [heads |-> {SpeakerA} \X {Pricing, Budget},
     sentences |-> TopicSentences,
     fallbacks |-> {}]

\* processTranscriptEntries, then analyzeTranscriptContent up to its return
NextTopics ==
    \/ \E entry \in NextEntriesWithin(TopicDomain, Entries,
                                      MaxTopicEntries, MaxTopicSentences) :
           ProcessStep(entry)
    \/ AnalyzeCall
    \/ AnalyzeEntryStep
    \/ AnalyzeSentenceStep
    \/ AnalyzeReturn

SpecTopics == Init /\ [][NextTopics]_vars

---------------------------------------------------------------------------
(* Claims about topicFlow *)

\* The sentences of the first n entries, each with the topic of its entry; of
\* the n-th entry only the first m sentences
RECURSIVE ScannedOf(_, _, _)
ScannedOf(items, n, m) ==
    IF n = 0 THEN <<>>
    ELSE LET entry == items[n]
             taken == IF entry.sentences.isArray
                      THEN SubSeq(entry.sentences.items, 1, m) ELSE <<>>
             before == IF n = 1 THEN <<>>
                       ELSE ScannedOf(items, n - 1,
                                      Len(items[n - 1].sentences.items))
         IN before \o [k \in 1..Len(taken) |->
                          [topic |-> entry.topic, sentence |-> taken[k]]]

\* The sentences analyzeTranscriptContent has scanned in the current state
Scanned ==
    IF pc = "sentences" THEN ScannedOf(Entries, i, j)
    ELSE IF pc = "analyze"
    THEN ScannedOf(Entries, i, IF i = 0 THEN 0 ELSE Len(Entries[i].sentences.items))
    ELSE ScannedOf(Entries, Len(Entries),
                   IF Entries = <<>> THEN 0
                   ELSE Len(Entries[Len(Entries)].sentences.items))

\* The scanned sentences that have a topic string
ScannedWithTopic == SelectSeq(Scanned, LAMBDA s : NonEmpty(s.topic))

\* The sum of the durations of the scanned sentences under a topic
RECURSIVE TopicDuration(_, _)
TopicDuration(scanned, topic) ==
    IF scanned = <<>> THEN 0
    ELSE (IF Head(scanned).topic = topic
          THEN SentenceDuration(Head(scanned).sentence) ELSE 0)
         + TopicDuration(Tail(scanned), topic)

\* C11 (example): two entries of topic "pricing" with sentences of 5 and of 7
\* seconds, with an entry of another topic between them, give one record
\* {topic: "pricing", mentions: 2, duration: 12} that starts with the first
\* sentence
TopicExampleHolds ==
    (/\ Analyzed
     /\ Len(Entries) = 3
     /\ Entries[1].topic = Pricing
     /\ Entries[1].sentences = Array(<<Sentence(Hello, Num(1000), Num(6000))>>)
     /\ Entries[2].topic = Budget
     /\ Len(Entries[2].sentences.items) = 1
     /\ Entries[3].topic = Pricing
     /\ Entries[3].sentences = Array(<<Sentence(Hello, Num(2000), Num(9000))>>))
    => analysis.topicFlow[1] =
           [topic |-> Pricing, startTime |-> 1, duration |-> 12, mentions |-> 2]

\* C11: at every point of the scan of analyzeTranscriptContent topicFlow holds
\* one record per topic string, in order of first occurrence; every sentence under
\* a topic, adjacent to the earlier ones or not, has added its duration to the
\* record of the topic and incremented its mentions; the startTime of a record is
\* the start/1000 of the first sentence under the topic, or 0, and so never
\* changes after the record is created.
C11_TopicFlow ==
    Analyzing =>
      LET scanned == ScannedWithTopic
          topics == FirstSeen([k \in 1..Len(scanned) |-> scanned[k].topic])
          flow == analysis.topicFlow
      IN /\ Len(flow) = Len(topics)
         /\ \A k \in 1..Len(topics) :
              LET first == CHOOSE n \in 1..Len(scanned) :
                               /\ scanned[n].topic = topics[k]
                               /\ \A m \in 1..(n - 1) : scanned[m].topic # topics[k]
              IN /\ flow[k].topic = topics[k]
                 /\ flow[k].mentions =
                        Cardinality({n \in 1..Len(scanned) :
                                        scanned[n].topic = topics[k]})
                 /\ flow[k].duration = TopicDuration(scanned, topics[k])
                 /\ IF scanned[first].sentence.start = Undefined
                    THEN flow[k].startTime = 0
                    ELSE flow[k].startTime * 1000 = scanned[first].sentence.start.num
         /\ \A k, n \in 1..Len(flow) : k # n => flow[k].topic # flow[n].topic
         /\ TopicExampleHolds

\* C11 witness: the scan has merged a sentence of topic "pricing" into the record
\* an earlier entry created, with an entry of another topic between the two
C11_Witness ==
    /\ Analyzed
    /\ Len(Entries) = 3
    /\ Entries[1].topic = Pricing
    /\ Entries[2].topic = Budget
    /\ Entries[3].topic = Pricing
    /\ Len(analysis.topicFlow) = 2
    /\ analysis.topicFlow[1].mentions = 2
    /\ analysis.topicFlow[1].duration = 12

---------------------------------------------------------------------------
(* The handler's callback over entries whose texts have blanks and line breaks *)

Blank == Str(<<" ", " ">>)
HiTherePadded == Str(<<" ","H","i"," ","t","h","e","r","e","\n">>)
TwoParagraphs == Str(<<"a","\n","\n","b">>)

ConversationSentences ==
    {Sentence(Hello, Num(1000), Num(2000)),
     Sentence(Blank, Num(1000), Num(2000)),
     Sentence(HiTherePadded, Num(1000), Num(2000)),
     Sentence(Undefined, Num(1000), Num(2000)),
     Sentence(TwoParagraphs, Num(1000), Num(2000))}

ExtractDomain ==
    [heads |-> {SpeakerA, SpeakerB} \X {Undefined},
     sentences |-> ConversationSentences,
     fallbacks |->
        {FallbackEntry(SpeakerB, Undefined, Undefined, Hello, Undefined, Undefined)}]

NextExtract ==
    \/ \E entry \in NextEntries(ExtractDomain, Entries) : ProcessStep(entry)
    \/ AnalyzeCall
    \/ AnalyzeEntryStep
    \/ AnalyzeSentenceStep
    \/ AnalyzeReturn
    \/ ExtractStep
    \/ ExtractReturn

SpecExtract == Init /\ [][NextExtract]_vars

---------------------------------------------------------------------------
(* Claims about extractConversationText *)

\* extractConversationText has returned
Extracted == pc = "done"

\* The sentence has a text whose trimmed form is not empty
Qualifies(sentence) ==
    sentence.text.type = "string" /\ trim(sentence.text.str) # <<>>

\* The speakerIds of the first n entries that have a sentences array, in order
RECURSIVE ArraySpeakers(_, _)
ArraySpeakers(items, n) ==
    IF n = 0 THEN <<>>
    ELSE IF items[n].sentences.isArray
         THEN Append(ArraySpeakers(items, n - 1), items[n].speakerId)
         ELSE ArraySpeakers(items, n - 1)

\* The sequence number of the speaker of the n-th entry among the speakers of
\* the entries with a sentences array
SequenceNumber(items, n) ==
    PositionIn(FirstSeen(ArraySpeakers(items, n)), items[n].speakerId)

\* The lines of the first n entries: for each qualifying sentence of an entry
\* with a sentences array the label, ": " and the trimmed text, the label being
\* prefix followed by the sequence number of the speaker
RECURSIVE LinesOf(_, _, _)
LinesOf(items, n, prefix) ==
    IF n = 0 THEN <<>>
    ELSE LinesOf(items, n - 1, prefix)
         \o (IF items[n].sentences.isArray
             THEN LET said == SelectSeq(items[n].sentences.items, Qualifies)
                      label == Append(prefix, Digits[SequenceNumber(items, n) + 1])
                  IN [k \in 1..Len(said) |->
                         label \o <<":", " ">> \o trim(said[k].text.str)]
             ELSE <<>>)

\* One speaker with the sentences [blank, "Hello"]
IsHelloExample ==
    /\ Extracted
    /\ Len(Entries) = 1
    /\ Entries[1].sentences.isArray
    /\ Len(Entries[1].sentences.items) = 2
    /\ Entries[1].sentences.items[1].text = Blank
    /\ Entries[1].sentences.items[2].text = Hello

\* C12 as stated: extractConversationText labels each line with the display name
\* of the Speaker Resolver ("Speaker", a space, the number), ": " and the trimmed
\* text; one speaker with the sentences [blank, "Hello"] gives exactly
\* "Speaker 1: Hello".
C12_ResolverLabel ==
    /\ (Extracted /\ transcript.isArray) =>
           conversation = LinesOf(Entries, Len(Entries),
                                  <<"S","p","e","a","k","e","r"," ">>)
    /\ IsHelloExample => conversationText = <<"S","p","e","a","k","e","r"," ","1",":"," ","H","e","l","l","o">>

\* C12 as amended: each line is "Speaker" directly followed by the sequence
\* number of the speaker (no space), ": " and the trimmed text; one speaker with
\* the sentences [blank, "Hello"] gives exactly "Speaker1: Hello".
C12_LineFormat ==
    /\ (Extracted /\ transcript.isArray) =>
           conversation = LinesOf(Entries, Len(Entries),
                                  <<"S","p","e","a","k","e","r">>)
    /\ IsHelloExample => conversationText = <<"S","p","e","a","k","e","r","1",":"," ","H","e","l","l","o">>

\* C12 witness: the conversation text of one speaker with the sentences
\* [blank, "Hello"] was returned
C12_Witness ==
    /\ IsHelloExample
    /\ Len(conversation) = 1

\* The sentences of the entries that have a sentences array, in input order
RECURSIVE AllSentences(_)
AllSentences(items) ==
    IF items = <<>> THEN <<>>
    ELSE (IF Head(items).sentences.isArray
          THEN Head(items).sentences.items ELSE <<>>)
         \o AllSentences(Tail(items))

\* The lines, each followed by a newline
RECURSIVE Terminated(_)
Terminated(lines) ==
    IF lines = <<>> THEN <<>>
    ELSE Head(lines) \o <<"\n">> \o Terminated(Tail(lines))

\* text ends with suffix
EndsWith(text, suffix) ==
    /\ Len(suffix) <= Len(text)
    /\ SubSeq(text, Len(text) - Len(suffix) + 1, Len(text)) = suffix

\* One line per qualifying sentence, in input order, joined by single newlines;
\* the empty string when there is no line or the argument is no array
OneLinePerSentence ==
    LET said == SelectSeq(AllSentences(Entries), Qualifies)
    IN /\ Len(conversation) = Len(said)
       /\ \A k \in 1..Len(said) :
              EndsWith(conversation[k], <<":", " ">> \o trim(said[k].text.str))
       /\ conversationText \o <<"\n">> =
              (IF conversation = <<>> THEN <<"\n">> ELSE Terminated(conversation))
       /\ (said = <<>> \/ ~transcript.isArray) => conversationText = <<>>

NoLeadingOrTrailingNewline(text) ==
    text = <<>> \/ (text[1] # "\n" /\ text[Len(text)] # "\n")

NoEmptyLine(text) ==
    /\ NoLeadingOrTrailingNewline(text)
    /\ \A k \in 1..(Len(text) - 1) : ~(text[k] = "\n" /\ text[k + 1] = "\n")

\* No sentence has a line break inside its trimmed text
NoInnerLineBreak ==
    \A k \in 1..Len(AllSentences(Entries)) :
      LET text == AllSentences(Entries)[k].text
      IN text.type = "string" =>
           \A n \in 1..Len(trim(text.str)) : trim(text.str)[n] # "\n"

\* C13 as stated: extractConversationText returns exactly one line per sentence
\* whose trimmed text is non-empty, in input order, only from entries with a
\* sentences array, joined by a single newline; for any input the result has no
\* empty line and no leading or trailing newline, and it is the empty string when
\* no sentence qualifies or the argument is not an array.
C13_NoEmptyLineForAnyInput ==
    Extracted => (OneLinePerSentence /\ NoEmptyLine(conversationText))

\* C13 as amended: the same, except that the result is free of empty lines only
\* when no sentence text has a line break inside its trimmed text (trim removes
\* the leading and trailing whitespace only); it never has a leading or trailing
\* newline.
C13_Lines ==
    Extracted =>
      /\ OneLinePerSentence
      /\ NoLeadingOrTrailingNewline(conversationText)
      /\ NoInnerLineBreak => NoEmptyLine(conversationText)

\* C13 witness: two lines of two entries were joined, the second from a text
\* with surrounding whitespace
C13_Witness ==
    /\ Extracted
    /\ Len(Entries) = 2
    /\ Len(conversation) = 2
    /\ Entries[2].sentences.isArray
    /\ Entries[2].sentences.items[1].text = HiTherePadded
    /\ NoInnerLineBreak

---------------------------------------------------------------------------
(* Claims about the stages together *)

\* The number at the end of a label that begins with the given prefix
NumberOf(label, prefix) == SubSeq(label, Len(prefix) + 1, Len(label))

\* C14: consistent speaker numbering across stages: for every transcript the
\* sequence number extractConversationText assigns to a speakerId is the number
\* in the "Speaker N" name processTranscriptEntries assigns to the same speakerId,
\* also when entries with and without a sentences array, or with an empty one,
\* are mixed.
C14_ConsistentNumbering ==
    (Extracted /\ transcript.isArray) =>
      \A speakerId \in DOMAIN extractMap \cap DOMAIN speakerMap :
        NumberOf(extractMap[speakerId], <<"S","p","e","a","k","e","r">>)
            = NumberOf(speakerMap[speakerId], <<"S","p","e","a","k","e","r"," ">>)

---------------------------------------------------------------------------
(* processTranscriptEntries over sentences that exercise analyzeSentence *)

GreatAndWonderful == Str(<<"T","h","i","s"," ","i","s"," ","g","r","e","a","t"," ","a","n","d"," ","w","o","n","d","e","r","f","u","l">>)
TerribleProblem == Str(<<"T","h","i","s"," ","i","s"," ","a"," ","t","e","r","r","i","b","l","e"," ","p","r","o","b","l","e","m">>)
GreatUpperCase == Str(<<"G","R","E","A","T">>)
Unproblematic == Str(<<"u","n","p","r","o","b","l","e","m","a","t","i","c">>)
GreatGreatBad == Str(<<"g","r","e","a","t"," ","g","r","e","a","t"," ","b","a","d">>)
GoodBadAwful == Str(<<"g","o","o","d"," ","b","a","d"," ","a","w","f","u","l">>)
GreatProblemTie == Str(<<"g","r","e","a","t"," ","p","r","o","b","l","e","m">>)

ClassifierTexts ==
    {GreatAndWonderful, TerribleProblem, Str(<<>>), GreatProblemTie, Undefined,
     GreatUpperCase, Unproblematic, GreatGreatBad, Hello, GoodBadAwful}

ClassifierDomain ==
    [heads |-> {<<SpeakerA, Undefined>>},
     sentences |-> {Sentence(text, Num(1000), Num(2000)) : text \in ClassifierTexts},
     fallbacks |-> {}]

NextClassifier ==
    \E entry \in NextEntries(ClassifierDomain, Entries) : ProcessStep(entry)

SpecClassifier == Init /\ [][NextClassifier]_vars

---------------------------------------------------------------------------
(* Claims about analyzeSentence *)

\* word occurs in text as a substring
Occurs(word, text) ==
    \E k \in 1..(Len(text) - Len(word) + 1) :
        SubSeq(text, k, k + Len(word) - 1) = word

\* The number of the words of a list that occur in the lower-cased text
Hits(words, text) ==
    Cardinality({word \in {words[k] : k \in 1..Len(words)} :
                    Occurs(word, toLowerCase(text))})

\* The class of a text by the numbers p and n of positive and negative list
\* words in it
Classified(text) ==
    IF text.type # "string" THEN "neutral"
    ELSE LET p == Hits(positiveWords, text.str)
             n == Hits(negativeWords, text.str)
         IN IF p > n THEN "positive" ELSE IF n > p THEN "negative" ELSE "neutral"

\* The sentiment of the utterances made from sentences with the given text
SentimentIs(text, sentiment) ==
    \A k \in 1..Len(processedEntries) :
        AllSentences(Entries)[k].text = text
            => processedEntries[k].sentiment = sentiment

\* C15: analyzeSentence: with p the number of the 8 positive and n the number of
\* the 9 negative list words that occur as a substring of the lower-cased text
\* (each word counted once, no word boundaries), the result is "positive" if
\* p > n, "negative" if n > p and "neutral" otherwise, also for p = n > 0
\* ("great problem"), for p = n = 0 and for an absent or empty text.
C15_Classifier ==
    pc = "process" =>
      /\ Len(positiveWords) = 8
      /\ Len(negativeWords) = 9
      /\ Len(processedEntries) = Len(AllSentences(Entries))
      /\ \A k \in 1..Len(processedEntries) :
             processedEntries[k].sentiment
                 = Classified(AllSentences(Entries)[k].text)
      /\ SentimentIs(GreatAndWonderful, "positive")
      /\ SentimentIs(TerribleProblem, "negative")
      /\ SentimentIs(Str(<<>>), "neutral")
      /\ SentimentIs(Undefined, "neutral")
      /\ SentimentIs(GreatProblemTie, "neutral")

\* C15 witness: a text with a list word inside a longer word was classified
\* negative and a text with one positive word twice and one negative word neutral
C15_Witness ==
    /\ pc = "process"
    /\ Len(processedEntries) = 2
    /\ AllSentences(Entries)[1].text = Unproblematic
    /\ processedEntries[1].sentiment = "negative"
    /\ AllSentences(Entries)[2].text = GreatGreatBad
    /\ processedEntries[2].sentiment = "neutral"

---------------------------------------------------------------------------
(* Claims about the final pass of analyzeTranscriptContent *)

\* The quotient lies between 0 and 100; its denominator is positive
InPercentRange(ratio) ==
    /\ ratio.d > 0
    /\ 0 <= ratio.n
    /\ ratio.n <= 100 * ratio.d

\* C16: for every entries array, with any integer start and end values, end
\* before start included, every speaker's talkTimePercentage returned by
\* analyzeTranscriptContent lies in the range 0 to 100.
C16_PercentageRange ==
    Analyzed =>
      \A speaker \in DOMAIN analysis.speakerStats :
          InPercentRange(analysis.speakerStats[speaker].talkTimePercentage)

\* Two quotients with non-zero denominators are equal
SameQuotient(a, b) == a.d # 0 /\ b.d # 0 /\ a.n * b.d = b.n * a.d

\* C17: no division by zero in the final pass of analyzeTranscriptContent: for
\* every speaker of speakerStats avgWordsPerSentence is wordCount/sentenceCount,
\* and 0 when the speaker has no sentences; talkTimePercentage is
\* totalTime/totalDuration*100, and 0 when totalDuration is 0.
C17_FinalPass ==
    Analyzed =>
      \A speaker \in DOMAIN analysis.speakerStats :
        LET stats == analysis.speakerStats[speaker]
        IN /\ SameQuotient(stats.avgWordsPerSentence,
                  IF stats.sentenceCount = 0 THEN Ratio(0, 1)
                  ELSE Ratio(stats.wordCount, stats.sentenceCount))
           /\ SameQuotient(stats.talkTimePercentage,
                  IF analysis.totalDuration = 0 THEN Ratio(0, 1)
                  ELSE Ratio(stats.totalTime * 100, analysis.totalDuration))

---------------------------------------------------------------------------
(* Claims about the effects of the calls *)

\* C20: the transformation functions leave their input unchanged: no step of
\* processTranscriptEntries, analyzeTranscriptContent or extractConversationText
\* changes an entry or a sentence of the input array, and no state outside the
\* call, other than the returned value, changes.
C20_Frame ==
    [][/\ SubSeq(transcript'.items, 1, Len(transcript.items)) = transcript.items
       /\ transcript'.isArray = transcript.isArray
       /\ protoWrites' = protoWrites]_vars

---------------------------------------------------------------------------
(* Two transcripts: the callback of one runs step by step, the calls of the
   callback of the other happen between its steps *)

BatchDomain ==
    [heads |-> {SpeakerA, SpeakerB} \X {Undefined},
     sentences |-> {Sentence(HiThere, Num(1000), Num(3000))},
     fallbacks |-> {}]

\* The entries of the other transcript: one sentence of one of two speakers
OtherEntries == EntriesWith(BatchDomain, 1)

\* The other transcript: no array, or an array of no, one or two entries
OtherTranscripts ==
    {NoArray, Array(<<>>)}
        \cup {Array(<<a>>) : a \in OtherEntries}
        \cup {Array(<<a, b>>) : a \in OtherEntries, b \in OtherEntries}

mainVars == <<transcript, pc, i, j, processedEntries, speakerMap, analysis,
              lastSpeaker, conversation, extractMap, conversationText>>

\* The callback of the other transcript calls processTranscriptEntries
OtherProcess(transcriptArray) ==
    /\ other.pc \in {"idle", "done"}
    /\ LET st == processTranscriptEntries(transcriptArray)
       IN other' = [pc |-> IF st.thrown THEN "thrown" ELSE "processed",
                    transcript |-> transcriptArray,
                    processedEntries |-> st.out,
                    speakerMap |-> st.map,
                    analysis |-> EmptyObject,
                    conversationText |-> <<>>]
    /\ UNCHANGED <<mainVars, protoWrites, resolverVars, serviceVars>>

\* The callback of the other transcript calls analyzeTranscriptContent
OtherAnalyze ==
    /\ other.pc = "processed"
    /\ LET st == analyzeTranscriptContent(other.transcript)
       IN /\ other' = [other EXCEPT !.analysis = st.an,
                                    !.pc = IF st.thrown THEN "thrown" ELSE "analyzed"]
          /\ protoWrites' = protoWrites \cup st.writes
    /\ UNCHANGED <<mainVars, resolverVars, serviceVars>>

\* The callback of the other transcript calls extractConversationText
OtherExtract ==
    /\ other.pc = "analyzed"
    /\ LET st == extractConversationText(other.transcript)
       IN other' = [other EXCEPT !.conversationText = st.text,
                                 !.pc = IF st.thrown THEN "thrown" ELSE "done"]
    /\ UNCHANGED <<mainVars, protoWrites, resolverVars, serviceVars>>

NextBatch ==
    \/ \E entry \in NextEntries(BatchDomain, Entries) : ProcessStep(entry)
    \/ AnalyzeCall
    \/ AnalyzeEntryStep
    \/ AnalyzeSentenceStep
    \/ AnalyzeReturn
    \/ ExtractStep
    \/ ExtractReturn
    \/ \E transcriptArray \in OtherTranscripts : OtherProcess(transcriptArray)
    \/ OtherAnalyze
    \/ OtherExtract

SpecBatch == Init /\ [][NextBatch]_vars

---------------------------------------------------------------------------
(* Claims about repeated and concurrent calls *)

NamedAsAlone(items, utterances) ==
    /\ Len(utterances) = UtterancesBefore(items, Len(items) + 1)
    /\ \A k \in 1..Len(items) :
         \A n \in 1..UtterancesOf(items[k]) :
           utterances[UtterancesBefore(items, k) + n].speakerName
               = ResolvedName(items, k)

\* C19: no cross-call interference: when callbacks for several transcripts run
\* in any order or interleaved, each builds its own speaker map, so the labels
\* and analytics of a transcript are those it gets when processed alone.
C19_NoInterference ==
    /\ pc # "thrown" => NamedAsAlone(Entries, processedEntries)
    /\ other.pc \in {"processed", "analyzed", "done"}
           => NamedAsAlone(other.transcript.items, other.processedEntries)
    /\ (pc \in {"extract", "done"})
           => analysis = analyzeTranscriptContent(transcript).an

\* C19 witness: the other callback has processed a transcript of two speakers
\* while this one is inside its loop, with another first speaker
C19_Witness ==
    /\ pc = "process"
    /\ Len(Entries) = 1
    /\ MapSize(speakerMap) = 1
    /\ other.pc = "processed"
    /\ MapSize(other.speakerMap) = 2
    /\ other.transcript.items[1].speakerId # Entries[1].speakerId

---------------------------------------------------------------------------
(* formatTimestamp called on its own *)

\* The largest number of seconds formatted: more than 100 minutes
MaxSeconds == 6100

\* The arguments: the whole seconds up to MaxSeconds and the unset values
TimestampInputs == {Num(n) : n \in 0..MaxSeconds} \cup {Undefined, Null}

InitTimestamp ==
    /\ transcript = NoArray
    /\ pc = "format"
    /\ i = 0
    /\ j = 0
    /\ processedEntries = <<>>
    /\ speakerMap = EmptyMap
    /\ analysis = InitialAnalysis
    /\ lastSpeaker = Null
    /\ conversation = <<>>
    /\ extractMap = EmptyMap
    /\ conversationText = <<>>
    /\ protoWrites = {}
    /\ lookups = <<>>
    /\ labels = <<>>
    /\ replayMap = EmptyMap
    /\ replayLabels = <<>>
    /\ other = IdleCall
    /\ seconds \in TimestampInputs
    /\ timestamp = <<>>
    /\ aiConversationText = <<>>
    /\ request = [callIds |-> NoArray, batchSize |-> 0]
    /\ handlerPc = "idle"
    /\ loopIndex = 0
    /\ batches = <<>>
    /\ allResults = <<>>
    /\ responses = <<>>
    /\ secretsCache = {}
    /\ lastSecretRefresh = 0
    /\ clock = CACHE_DURATION
    /\ calls = <<>>

\* formatTimestamp(seconds)
FormatCall ==
    /\ pc = "format"
    /\ timestamp' = formatTimestamp(seconds)
    /\ pc' = "formatted"
    /\ UNCHANGED <<transcript, i, j, processVars, analyzeVars, extractVars,
                   resolverVars, other, seconds, aiConversationText, batchVars, secretVars>>

NextTimestamp == FormatCall

SpecTimestamp == InitTimestamp /\ [][NextTimestamp]_vars

\* The position of the first ":" of a string, 0 if it has none
ColonAt(s) ==
    IF \E k \in 1..Len(s) : s[k] = ":"
    THEN CHOOSE k \in 1..Len(s) : s[k] = ":" /\ \A m \in 1..(k - 1) : s[m] # ":"
    ELSE 0

\* The value of a decimal digit, -1 for another character
DigitValue(c) ==
    IF \E d \in 1..10 : Digits[d] = c THEN (CHOOSE d \in 1..10 : Digits[d] = c) - 1
    ELSE 0 - 1

\* The number a string of decimal digits writes, -1 if it is not one
RECURSIVE Decimal(_)
Decimal(s) ==
    IF s = <<>> THEN 0 - 1
    ELSE IF DigitValue(s[Len(s)]) < 0 THEN 0 - 1
    ELSE IF Len(s) = 1 THEN DigitValue(s[1])
    ELSE IF Decimal(SubSeq(s, 1, Len(s) - 1)) < 0 THEN 0 - 1
    ELSE 10 * Decimal(SubSeq(s, 1, Len(s) - 1)) + DigitValue(s[Len(s)])

\* The minutes and the seconds a timestamp writes
MinutesPart(s) == SubSeq(s, 1, ColonAt(s) - 1)
SecondsPart(s) == SubSeq(s, ColonAt(s) + 1, Len(s))

\* The shortest writing of n in at least two decimal digits
TwoDigits(n) == IF n < 10 THEN <<"0">> \o toString(n) ELSE toString(n)

\* s seconds are written as MM:SS
WrittenAsMinutesSeconds(s, written) ==
    /\ ColonAt(written) > 0
    /\ Decimal(MinutesPart(written)) = s \div 60
    /\ Decimal(SecondsPart(written)) = s % 60
    /\ Decimal(SecondsPart(written)) \in 0..59
    /\ Decimal(MinutesPart(written)) * 60 + Decimal(SecondsPart(written)) = s
    /\ Len(SecondsPart(written)) = 2
    /\ MinutesPart(written) = TwoDigits(s \div 60)

\* C21: formatTimestamp writes every non-negative whole number of seconds s as
\* "MM:SS" with MM = floor(s/60) and SS = s mod 60, each padded with zeros to
\* width 2, so SS is in 00..59 and MM*60+SS = s; 0 and an unset value give
\* "00:00" and 125 gives "02:05".
C21_FormatTimestamp ==
    pc = "formatted" =>
        /\ (seconds.type = "number" /\ seconds.num >= 0)
               => WrittenAsMinutesSeconds(seconds.num, timestamp)
        /\ seconds \in {Num(0), Undefined, Null}
               => timestamp = <<"0","0",":","0","0">>
        /\ seconds = Num(125) => timestamp = <<"0","2",":","0","5">>

\* C21 witness: 125 seconds have been formatted
C21_Witness ==
    /\ pc = "formatted"
    /\ seconds = Num(125)
    /\ timestamp = <<"0","2",":","0","5">>

---------------------------------------------------------------------------
(* The numbers of a sentence: duration, words, marks, sentiment *)

\* Sentences with both times, a start of 0, an end before the start, no end, no
\* start, and an end at the start; texts with leading, doubled and trailing
\* spaces, a tab and a line break, several marks, no text, and the empty text
MetricsSentences ==
    {Sentence(HiThere, Num(1000), Num(3000)),
     Sentence(Str(<<" ","g","r","e","a","t","?","?"," "," ","a","!"," ">>),
              Num(0), Num(2000)),
     Sentence(Str(<<"b","a","d","\t","b","\n","c">>), Num(2000), Num(1000)),
     Sentence(Undefined, Num(3000), Undefined),
     Sentence(Str(<<"w","h","y","?">>), Undefined, Num(3000)),
     Sentence(Str(<<>>), Num(1000), Num(1000))}

MetricsDomain ==
    [heads |-> {<<SpeakerA, Undefined>>, <<SpeakerB, Pricing>>},
     sentences |-> MetricsSentences,
     fallbacks |->
        {FallbackEntry(SpeakerB, Pricing, Undefined, Hello, Num(1), Num(2))}]

NextMetrics ==
    \/ \E entry \in NextEntries(MetricsDomain, Entries) : ProcessStep(entry)
    \/ AnalyzeCall
    \/ AnalyzeEntryStep
    \/ AnalyzeSentenceStep
    \/ AnalyzeReturn

SpecMetrics == Init /\ [][NextMetrics]_vars

\* A time of a sentence is present and not zero
PresentNonZero(ms) == ms.type = "number" /\ ms.num # 0

\* d seconds are the duration of the sentence: (end - start)/1000 when both are
\* present and not zero, and 0 otherwise
IsDurationOf(d, sentence) ==
    IF PresentNonZero(sentence.start) /\ PresentNonZero(sentence.end)
    THEN d * 1000 = sentence.end.num - sentence.start.num
    ELSE d = 0

\* The duration in milliseconds the sentences of scanned add up to
RECURSIVE ClaimedMilliseconds(_)
ClaimedMilliseconds(scanned) ==
    IF scanned = <<>> THEN 0
    ELSE (IF PresentNonZero(Head(scanned).sentence.start)
               /\ PresentNonZero(Head(scanned).sentence.end)
          THEN Head(scanned).sentence.end.num - Head(scanned).sentence.start.num
          ELSE 0)
         + ClaimedMilliseconds(Tail(scanned))

\* The utterances made so far from the sentences of the entries, with their
\* sentences
SentencePairs ==
    {<<processedEntries[UtterancesBefore(Entries, k) + n],
       Entries[k].sentences.items[n]>> :
        <<k, n>> \in {<<k, n>> \in (1..Len(Entries)) \X (1..MaxSentences + 1) :
                         /\ Entries[k].sentences.isArray
                         /\ n <= Len(Entries[k].sentences.items)
                         /\ UtterancesBefore(Entries, k) + n <= Len(processedEntries)}}

\* C22: the duration of a sentence, in processTranscriptEntries and in
\* analyzeTranscriptContent, is (end - start)/1000 when start and end are both
\* present and non-zero and 0 otherwise (so 0 for a start of 0 ms); a negative
\* result for end < start is kept.
C22_SentenceDuration ==
    /\ \A pair \in SentencePairs : IsDurationOf(pair[1].duration, pair[2])
    /\ Analyzing => analysis.totalDuration * 1000 = ClaimedMilliseconds(Scanned)

\* C22 witness: a sentence that ends before it starts, after one that starts at 0,
\* has been normalized and analyzed: durations 0 and -1
C22_Witness ==
    /\ Analyzed
    /\ Len(processedEntries) = 2
    /\ processedEntries[1].duration = 0
    /\ processedEntries[1].endTime = Num(2)
    /\ processedEntries[2].duration = 0 - 1
    /\ analysis.totalDuration = 0 - 1

\* The number of space characters of a string
SpaceCount(s) == Cardinality({k \in 1..Len(s) : s[k] = " "})

SentencesWith(scanned, mark) ==
    Cardinality({k \in 1..Len(scanned) :
                    /\ scanned[k].sentence.text.type = "string"
                    /\ \E m \in 1..Len(scanned[k].sentence.text.str) :
                          scanned[k].sentence.text.str[m] = mark})

\* C24: questionCount is the number of sentences, over the entries with a
\* sentences array, whose text contains "?", exclamationCount the number whose
\* text contains "!"; a sentence adds at most 1 to each however many marks it
\* has, a sentence with both adds 1 to both, and neither counter exceeds the
\* number of sentences.
C24_MarkCounters ==
    Analyzing =>
        /\ analysis.interactionMetrics.questionCount = SentencesWith(Scanned, "?")
        /\ analysis.interactionMetrics.exclamationCount = SentencesWith(Scanned, "!")
        /\ analysis.interactionMetrics.questionCount <= Len(Scanned)
        /\ analysis.interactionMetrics.exclamationCount <= Len(Scanned)

\* C24 witness: " great??  a! " and "why?" have been scanned: two questions and
\* one exclamation
C24_Witness ==
    /\ Analyzed
    /\ Len(Scanned) = 2
    /\ Scanned[1].sentence.text
           = Str(<<" ","g","r","e","a","t","?","?"," "," ","a","!"," ">>)
    /\ Scanned[2].sentence.text = Str(<<"w","h","y","?">>)
    /\ analysis.interactionMetrics.questionCount = 2
    /\ analysis.interactionMetrics.exclamationCount = 1

\* The falsy values of a topic
FalsyTopics == {Undefined, Null, Str(<<>>), Num(0)}

\* C25: in analyzeTranscriptContent an entry without a sentences array leaves the
\* whole analytics state unchanged (no speakerStats key, no counter, no topicFlow
\* record, no last-speaker memory), and an entry whose topic is falsy never
\* creates or updates a topicFlow record.
C25_SkippedEntries ==
    [][/\ (pc = "analyze" /\ i' = i + 1 /\ ~Entries[i + 1].sentences.isArray)
            => /\ analysis' = analysis
               /\ lastSpeaker' = lastSpeaker
               /\ protoWrites' = protoWrites
       /\ (/\ pc \in {"analyze", "sentences"}
           /\ pc' \in {"analyze", "sentences"}
           /\ Entries[i'].topic \in FalsyTopics)
            => analysis'.topicFlow = analysis.topicFlow]_vars

\* C25 witness: the scan has passed an entry of speaker A without a topic and an
\* entry of speaker B without a sentences array: no record, no stats of B
C25_Witness ==
    /\ pc = "analyze"
    /\ i = 2
    /\ Entries[1].sentences.isArray
    /\ Entries[1].sentences.items # <<>>
    /\ Entries[1].topic = Undefined
    /\ ~Entries[2].sentences.isArray
    /\ Entries[2].topic = Pricing
    /\ analysis.topicFlow = <<>>
    /\ DOMAIN analysis.speakerStats = {PropertyKey(SpeakerA)}
    /\ lastSpeaker = SpeakerA

\* The sum of sentenceCount, and of wordCount, over the speakers of speakerStats
RECURSIVE SumSentenceCount(_)
SumSentenceCount(stats) ==
    IF DOMAIN stats = {} THEN 0
    ELSE LET key == CHOOSE k \in DOMAIN stats : TRUE
         IN stats[key].sentenceCount
              + SumSentenceCount([k \in DOMAIN stats \ {key} |-> stats[k]])

RECURSIVE SumSpeakerWords(_)
SumSpeakerWords(stats) ==
    IF DOMAIN stats = {} THEN 0
    ELSE LET key == CHOOSE k \in DOMAIN stats : TRUE
         IN stats[key].wordCount
              + SumSpeakerWords([k \in DOMAIN stats \ {key} |-> stats[k]])

\* The counters of the analysis agree after the sentences scanned so far
CountersAgree ==
    /\ analysis.sentimentDistribution["positive"]
         + analysis.sentimentDistribution["neutral"]
         + analysis.sentimentDistribution["negative"] = Len(Scanned)
    /\ SumSentenceCount(analysis.speakerStats) = Len(Scanned)
    /\ SumSpeakerWords(analysis.speakerStats) = analysis.totalWords

\* C26: counter consistency of analyzeTranscriptContent: at every point of the
\* scan positive + neutral + negative equals the number of sentences processed so
\* far, which equals the sum of sentenceCount over all speakers, and totalWords
\* equals the sum of wordCount over all speakers.
C26_CounterConsistency == Analyzing => CountersAgree

\* C26 on the speakerIds that are no member of Object.prototype
C26_OwnKeysConsistency ==
    (Analyzing /\ protoWrites = {}) => CountersAgree

---------------------------------------------------------------------------
(* extractConversationText of the ai-analysis function *)

\* An iteration that keeps the label made from the speakerId for a new speaker
AiExtractEntry_IdLabel(entry, st) ==
    IF ~HasSentences(entry) THEN st
    ELSE LET speakerId == entry.speakerId
             initialName == <<"S","p","e","a","k","e","r","_">> \o PropertyKey(speakerId)
             known == speakerId \in DOMAIN st.map
             speakerName == IF known THEN st.map[speakerId] ELSE initialName
             map == IF known THEN st.map ELSE MapSet(st.map, speakerId, speakerName)
         IN ExtractSentences(speakerName, entry.sentences.items,
                [out |-> st.out, map |-> map, thrown |-> FALSE])

\* One iteration of for (const entry of transcriptArray): the name starts as
\* `Speaker_${speakerId}` and is replaced in both branches
AiExtractEntry(entry, st) ==
    IF ~HasSentences(entry) THEN st
    ELSE LET speakerId == entry.speakerId
             initialName == <<"S","p","e","a","k","e","r","_">> \o PropertyKey(speakerId)
             known == speakerId \in DOMAIN st.map
             speakerNumber == MapSize(st.map) + 1
             speakerName ==
                 IF known THEN st.map[speakerId]
                 ELSE <<"S","p","e","a","k","e","r">> \o toString(speakerNumber)
             map == IF known THEN st.map ELSE MapSet(st.map, speakerId, speakerName)
         IN ExtractSentences(speakerName, entry.sentences.items,
                [out |-> st.out, map |-> map, thrown |-> FALSE])

RECURSIVE AiExtractEntries(_, _)
AiExtractEntries(items, st) ==
    IF items = <<>> \/ st.thrown THEN st
    ELSE AiExtractEntries(Tail(items), AiExtractEntry(Head(items), st))

\* extractConversationText(transcriptArray) of the ai-analysis function:
\* [text, thrown]
aiExtractConversationText(transcriptArray) ==
    IF ~transcriptArray.isArray THEN [text |-> <<>>, thrown |-> FALSE]
    ELSE LET st == AiExtractEntries(transcriptArray.items,
                       [out |-> <<>>, map |-> EmptyMap, thrown |-> FALSE])
         IN [text |-> join(st.out), thrown |-> st.thrown]

\* The ai-analysis function is called on the transcript the transcript function
\* has been called on
AiExtractCall ==
    /\ pc = "done"
    /\ LET st == aiExtractConversationText(transcript)
       IN /\ aiConversationText' = st.text
          /\ pc' = IF st.thrown THEN "thrown" ELSE "both"
    /\ UNCHANGED <<transcript, i, j, processVars, analyzeVars, extractVars,
                   resolverVars, other, seconds, timestamp, batchVars, secretVars>>

NextExtractors ==
    \/ NextExtract
    \/ AiExtractCall

SpecExtractors == Init /\ [][NextExtractors]_vars

\* C27: the two implementations of extractConversationText, of the transcript
\* function and of the ai-analysis function, return the same string for every
\* transcript array, although they build the speaker label in differently ordered
\* steps.
C27_SameText ==
    pc = "both" => aiConversationText = conversationText

\* C27 witness: both have returned the two lines of two speakers
C27_Witness ==
    /\ pc = "both"
    /\ Len(Entries) = 2
    /\ Entries[1].speakerId = SpeakerA
    /\ Entries[2].speakerId = SpeakerB
    /\ \A k \in 1..2 :
         /\ Entries[k].sentences.isArray
         /\ Len(Entries[k].sentences.items) = 1
         /\ Entries[k].sentences.items[1].text = Hello
    /\ conversationText
         = <<"S","p","e","a","k","e","r","1",":"," ","H","e","l","l","o","\n",
             "S","p","e","a","k","e","r","2",":"," ","H","e","l","l","o">>
    /\ aiConversationText = conversationText

---------------------------------------------------------------------------
(* batchAnalysis of the ai-analysis function *)

MaxCallIds == 3
MaxBatches == 4

\* Array.prototype.slice(start, end) on the items of an array
slice(items, start, end) ==
    LET len == Len(items)
        from == IF start < 0 THEN (IF len + start < 0 THEN 0 ELSE len + start)
                ELSE (IF start > len THEN len ELSE start)
        to == IF end < 0 THEN (IF len + end < 0 THEN 0 ELSE len + end)
              ELSE (IF end > len THEN len ELSE end)
    IN IF to <= from THEN <<>> ELSE SubSeq(items, from + 1, to)

\* The results processBatch makes of the transcripts the vendor returned:
\* fates[k] tells whether the k-th call of the batch has no transcript, has one
\* that ends in an error result, or has one that ends in an analysis
RECURSIVE BatchResults(_, _)
BatchResults(batch, fates) ==
    IF batch = <<>> THEN <<>>
    ELSE (IF Head(fates) = "absent" THEN <<>>
          ELSE <<[callId |-> Head(batch), error |-> Head(fates) = "error"]>>)
         \o BatchResults(Tail(batch), Tail(fates))

\* What a call of processBatch can come to: getGongTranscripts throws, or
\* Promise.all resolves to one result per returned transcript
ProcessBatchOutcomes(batch) ==
    {[thrown |-> TRUE, results |-> <<>>]}
        \cup {[thrown |-> FALSE, results |-> BatchResults(batch, fates)] :
                 fates \in [1..Len(batch) -> {"absent", "error", "analysis"}]}

\* A POST request has arrived: callIds is no array or holds up to MaxCallIds
\* ids, batchSize is a number of the body or, when absent, the default 5
InitBatchAnalysis ==
    /\ transcript = NoArray
    /\ pc = "batch"
    /\ i = 0
    /\ j = 0
    /\ processedEntries = <<>>
    /\ speakerMap = EmptyMap
    /\ analysis = InitialAnalysis
    /\ lastSpeaker = Null
    /\ conversation = <<>>
    /\ extractMap = EmptyMap
    /\ conversationText = <<>>
    /\ protoWrites = {}
    /\ lookups = <<>>
    /\ labels = <<>>
    /\ replayMap = EmptyMap
    /\ replayLabels = <<>>
    /\ other = IdleCall
    /\ seconds = Undefined
    /\ timestamp = <<>>
    /\ aiConversationText = <<>>
    /\ request \in
          [callIds : {NoArray} \cup {Array([k \in 1..n |-> k]) : n \in 0..MaxCallIds},
           batchSize : {0 - 1, 0, 1, 2, 5}]
    /\ handlerPc = "validate"
    /\ loopIndex = 0
    /\ batches = <<>>
    /\ allResults = <<>>
    /\ responses = <<>>
    /\ secretsCache = {}
    /\ lastSecretRefresh = 0
    /\ clock = CACHE_DURATION
    /\ calls = <<>>

pipelineVars == <<transcript, pc, i, j, processedEntries, speakerMap, analysis,
                  lastSpeaker, conversation, extractMap, conversationText,
                  protoWrites, resolverVars, other, seconds, timestamp,
                  aiConversationText>>

\* if (!callIds || !Array.isArray(callIds)) return res.status(400).json(...)
ValidateRequest ==
    /\ handlerPc = "validate"
    /\ IF request.callIds.isArray
       THEN /\ handlerPc' = "secrets"
            /\ UNCHANGED responses
       ELSE /\ handlerPc' = "responded"
            /\ responses' = Append(responses, [status |-> 400])
    /\ UNCHANGED <<pipelineVars, secretVars, request, loopIndex, batches, allResults>>

\* const secrets = await getSecrets(): it resolves, or it throws and the outer
\* catch answers 500
AwaitSecrets(resolved) ==
    /\ handlerPc = "secrets"
    /\ IF resolved
       THEN /\ handlerPc' = "split"
            /\ UNCHANGED responses
       ELSE /\ handlerPc' = "responded"
            /\ responses' = Append(responses, [status |-> 500])
    /\ UNCHANGED <<pipelineVars, secretVars, request, loopIndex, batches, allResults>>

\* for (let i = 0; i < callIds.length; i += batchSize): one iteration.  A loop
\* that does not advance pushes a batch per iteration without end: it is
\* followed for MaxBatches batches, after which the instance is out of memory
\* or out of time and is stopped by the runtime, before any response
SplitStep ==
    /\ handlerPc = "split"
    /\ loopIndex < Len(request.callIds.items)
    /\ IF request.batchSize <= 0 /\ Len(batches) >= MaxBatches
       THEN /\ handlerPc' = "killed"
            /\ UNCHANGED <<batches, loopIndex>>
       ELSE /\ batches' = Append(batches, slice(request.callIds.items, loopIndex,
                                               loopIndex + request.batchSize))
            /\ loopIndex' = loopIndex + request.batchSize
            /\ UNCHANGED handlerPc
    /\ UNCHANGED <<pipelineVars, secretVars, request, allResults, responses>>

\* The splitting loop ends
SplitEnd ==
    /\ handlerPc = "split"
    /\ loopIndex >= Len(request.callIds.items)
    /\ handlerPc' = "process"
    /\ loopIndex' = 0
    /\ UNCHANGED <<pipelineVars, secretVars, request, batches, allResults, responses>>

\* for (let i = 0; i < batches.length; i++): one iteration; a batch whose
\* processing throws gets one error result per callId
ProcessBatchStep(outcome) ==
    /\ handlerPc = "process"
    /\ loopIndex < Len(batches)
    /\ LET batch == batches[loopIndex + 1]
       IN allResults' =
              allResults \o
                  (IF outcome.thrown
                   THEN [k \in 1..Len(batch) |-> [callId |-> batch[k], error |-> TRUE]]
                   ELSE outcome.results)
    /\ loopIndex' = loopIndex + 1
    /\ UNCHANGED <<pipelineVars, secretVars, request, handlerPc, batches, responses>>

\* res.status(200).json({results: allResults, summary: {...}})
Respond ==
    /\ handlerPc = "process"
    /\ loopIndex = Len(batches)
    /\ responses' =
          Append(responses,
                 [status |-> 200,
                  results |-> allResults,
                  summary |->
                      [totalCalls |-> Len(request.callIds.items),
                       totalBatches |-> Len(batches),
                       successful |-> Len(SelectSeq(allResults, LAMBDA r : ~r.error)),
                       failed |-> Len(SelectSeq(allResults, LAMBDA r : r.error))]])
    /\ handlerPc' = "responded"
    /\ UNCHANGED <<pipelineVars, secretVars, request, loopIndex, batches, allResults>>

NextBatchAnalysis ==
    \/ ValidateRequest
    \/ \E resolved \in BOOLEAN : AwaitSecrets(resolved)
    \/ SplitStep
    \/ SplitEnd
    \/ \E outcome \in
          IF handlerPc = "process" /\ loopIndex < Len(batches)
          THEN ProcessBatchOutcomes(batches[loopIndex + 1]) ELSE {} :
              ProcessBatchStep(outcome)
    \/ Respond

SpecBatchAnalysis == InitBatchAnalysis /\ [][NextBatchAnalysis]_vars

\* Every step of the handler that can be taken is taken in the end
FairBatchAnalysis == SpecBatchAnalysis /\ WF_vars(NextBatchAnalysis)

\* The concatenation of sequences
RECURSIVE Concatenated(_)
Concatenated(seqs) ==
    IF seqs = <<>> THEN <<>> ELSE Head(seqs) \o Concatenated(Tail(seqs))

\* The batches, once the splitting loop has finished, are callIds cut into
\* pieces of at most batchSize ids
BatchesPartition ==
    handlerPc \in {"process", "responded"} /\ request.callIds.isArray
       /\ (handlerPc = "responded" => responses[1].status = 200)
    => /\ Concatenated(batches) = request.callIds.items
       /\ \A k \in 1..Len(batches) : Len(batches[k]) <= request.batchSize

\* C28: batchAnalysis terminates: for every request whose callIds is an array and
\* every batchSize of the body, 0 and negative numbers included, the loop that
\* splits callIds into batches finishes, the batches concatenated in order are
\* callIds with at most batchSize ids each, and the handler eventually sends
\* exactly one response.
C28_Terminates ==
    /\ <>[](handlerPc = "responded" /\ Len(responses) = 1)
    /\ []BatchesPartition
    /\ [](Len(responses) <= 1)

\* C28 for the requests with a batchSize of at least 1
C28_TerminatesForPositiveSize ==
    /\ (request.batchSize >= 1) => <>[](handlerPc = "responded" /\ Len(responses) = 1)
    /\ []((request.batchSize >= 1) => BatchesPartition)
    /\ [](Len(responses) <= 1)

\* The number of results of the response that name the call
ResultsOf(callId) ==
    Cardinality({k \in 1..Len(responses[1].results) :
                    responses[1].results[k].callId = callId})

\* The handler has answered 200 with results and summary
Answered == handlerPc = "responded" /\ responses[1].status = 200

\* C29: batchAnalysis accounts for every requested call: in the response each
\* callId of the request appears in exactly one element of results, an analysis
\* or an error, so summary.successful + summary.failed = summary.totalCalls; a
\* batch whose processing throws yields one error result per callId and later
\* batches are still processed.
C29_EveryCallAccounted ==
    Answered =>
        /\ \A k \in 1..Len(request.callIds.items) :
               ResultsOf(request.callIds.items[k]) = 1
        /\ responses[1].summary.successful + responses[1].summary.failed
               = responses[1].summary.totalCalls

\* C29 without the calls the vendor returns no transcript for: no call has two
\* results, and successful + failed is the number of results
C29_AtMostOneResult ==
    (Answered /\ request.batchSize >= 1) =>
        /\ \A k \in 1..Len(request.callIds.items) :
               ResultsOf(request.callIds.items[k]) <= 1
        /\ responses[1].summary.successful + responses[1].summary.failed
               = Len(responses[1].results)
        /\ Len(responses[1].results) <= responses[1].summary.totalCalls

---------------------------------------------------------------------------
(* getSecrets and its cache *)

MaxCalls == 2
MaxTicks == 3

\* The secrets every call fetches, in the order of the three awaits
RequiredSecrets == <<"accessKey", "secretKey", "baseUrl">>

\* Two requests have arrived on a fresh instance; the clock shows a time at
\* least CACHE_DURATION after 0
InitSecrets ==
    /\ transcript = NoArray
    /\ pc = "secrets"
    /\ i = 0
    /\ j = 0
    /\ processedEntries = <<>>
    /\ speakerMap = EmptyMap
    /\ analysis = InitialAnalysis
    /\ lastSpeaker = Null
    /\ conversation = <<>>
    /\ extractMap = EmptyMap
    /\ conversationText = <<>>
    /\ protoWrites = {}
    /\ lookups = <<>>
    /\ labels = <<>>
    /\ replayMap = EmptyMap
    /\ replayLabels = <<>>
    /\ other = IdleCall
    /\ seconds = Undefined
    /\ timestamp = <<>>
    /\ aiConversationText = <<>>
    /\ request = [callIds |-> NoArray, batchSize |-> 0]
    /\ handlerPc = "idle"
    /\ loopIndex = 0
    /\ batches = <<>>
    /\ allResults = <<>>
    /\ responses = <<>>
    /\ secretsCache = {}
    /\ lastSecretRefresh = 0
    /\ clock = CACHE_DURATION
    /\ calls = [c \in 1..MaxCalls |-> [pc |-> "idle", now |-> 0, fetched |-> 0]]

\* A request calls getSecrets: const now = Date.now(); the cache is returned if
\* it is fresh and not empty, else the first accessSecretVersion is awaited
GetSecretsCall(c) ==
    /\ calls[c].pc # "fetching"
    /\ calls' = [calls EXCEPT ![c] =
          [pc |-> IF clock - lastSecretRefresh < CACHE_DURATION /\ secretsCache # {}
                  THEN "returned" ELSE "fetching",
           now |-> clock,
           fetched |-> 0]]
    /\ UNCHANGED <<pipelineVars, batchVars, secretsCache, lastSecretRefresh, clock>>

\* An awaited accessSecretVersion resolves: the next one is awaited, or, after
\* the last, secretsCache is assigned and lastSecretRefresh = now
FetchResolve(c) ==
    /\ calls[c].pc = "fetching"
    /\ IF calls[c].fetched + 1 < Len(RequiredSecrets)
       THEN /\ calls' = [calls EXCEPT ![c].fetched = @ + 1]
            /\ UNCHANGED <<secretsCache, lastSecretRefresh>>
       ELSE /\ calls' = [calls EXCEPT ![c].fetched = @ + 1, ![c].pc = "returned"]
            /\ secretsCache' = {RequiredSecrets[k] : k \in 1..Len(RequiredSecrets)}
            /\ lastSecretRefresh' = calls[c].now
    /\ UNCHANGED <<pipelineVars, batchVars, clock>>

\* An awaited accessSecretVersion rejects: getSecrets throws
FetchReject(c) ==
    /\ calls[c].pc = "fetching"
    /\ calls' = [calls EXCEPT ![c].pc = "thrown"]
    /\ UNCHANGED <<pipelineVars, batchVars, secretsCache, lastSecretRefresh, clock>>

\* Half of CACHE_DURATION passes
Tick ==
    /\ clock < CACHE_DURATION + MaxTicks * (CACHE_DURATION \div 2)
    /\ clock' = clock + (CACHE_DURATION \div 2)
    /\ UNCHANGED <<pipelineVars, batchVars, secretsCache, lastSecretRefresh, calls>>

NextSecrets ==
    \/ \E c \in 1..MaxCalls : GetSecretsCall(c)
    \/ \E c \in 1..MaxCalls : FetchResolve(c)
    \/ \E c \in 1..MaxCalls : FetchReject(c)
    \/ Tick

SpecSecrets == InitSecrets /\ [][NextSecrets]_vars

\* The step sends a request of call c to the secret store
Contacts(c) ==
    /\ calls'[c].pc = "fetching"
    /\ calls[c].pc # "fetching" \/ calls'[c].fetched > calls[c].fetched

\* The cache is empty, or CACHE_DURATION has passed since the refresh
EmptyOrExpired ==
    secretsCache = {} \/ clock - lastSecretRefresh >= CACHE_DURATION

\* The cache holds nothing or every required secret
EmptyOrComplete ==
    secretsCache = {} \/ \A k \in 1..Len(RequiredSecrets) : RequiredSecrets[k] \in secretsCache

\* The step is a failed fetch of call c
Fails(c) == calls[c].pc = "fetching" /\ calls'[c].pc = "thrown"

\* C30: the secrets cache under any interleaving of concurrent requests: the
\* secret store is contacted only when the cache is empty or at least
\* CACHE_DURATION has passed since the last successful refresh; secretsCache is
\* replaced as a whole after all required secrets were fetched, so it is always
\* empty or complete; a failed fetch leaves secretsCache and lastSecretRefresh
\* unchanged.
C30_SecretsCache ==
    /\ [][\A c \in 1..MaxCalls : Contacts(c) => EmptyOrExpired]_vars
    /\ []EmptyOrComplete
    /\ [][\A c \in 1..MaxCalls :
             Fails(c) => /\ secretsCache' = secretsCache
                         /\ lastSecretRefresh' = lastSecretRefresh]_vars

\* C30 for the start of a fetch: a call begins to ask the store only when, at
\* the call, the cache is empty or expired; with the other two parts
C30_GatedAtTheCall ==
    /\ [][\A c \in 1..MaxCalls :
             (calls[c].pc # "fetching" /\ calls'[c].pc = "fetching")
                 => EmptyOrExpired]_vars
    /\ []EmptyOrComplete
    /\ [][\A c \in 1..MaxCalls :
             Fails(c) => /\ secretsCache' = secretsCache
                         /\ lastSecretRefresh' = lastSecretRefresh]_vars

\* lastSecretRefresh never goes back
C30_RefreshTimeGrows == [][lastSecretRefresh' >= lastSecretRefresh]_vars

====
